---- MODULE Spec2Model ----
(***************************************************************************)
(* Kritis policy evaluation and attestation trust engine.                  *)
(*                                                                         *)
(* The admission review engine (Reviewer.ReviewGAP, Reviewer.ReviewISP)    *)
(* working on a metadata store of attestation occurrences, with the        *)
(* attestation verifier of pkg/kritis/cryptolib/verifier.go.  The two      *)
(* review entry points follow section 4.3 of the design; the order of the  *)
(* per-policy checks is the one the tables of TestReviewGAP and            *)
(* TestReviewISP (pkg/kritis/review/review_test.go) require.               *)
(*                                                                         *)
(* The verifier (VerifyAttestation), the vulnerability policy evaluator    *)
(* (ValidateVulnzSigningPolicy, severityWithinThreshold) and the signer    *)
(* (Signer.SignImage) are also exercised on their own, each under its own  *)
(* specification: VerifierSpec, EvalSpec and SignerSpec.  MainSpec runs    *)
(* the signer program (main), KeySpec NewPublicKey, ResolveSpec the        *)
(* authority resolution with review batches of several images, and         *)
(* RaceSpec several SignImage calls interleaved on one store.              *)
(***************************************************************************)
EXTENDS Naturals, Sequences, FiniteSets, TLC

VARIABLES
    store,          \* metadata store: set of attestation occurrences
    op,             \* the call that ran last, with its arguments
    err,            \* the error that call returned ("nil" = no error)
    thAttestations, \* MemoryStrategy.Attestations of that call: image -> bool
    thViolations,   \* MemoryStrategy.Violations of that call: image -> violations
    occ,            \* occurrences uploaded by that call (MockMetadataClient.Occ)
    ret,            \* the value that call returned next to its error
    calls,          \* the calls it made to its collaborators, in order
    lastID          \* the number of occurrence IDs the metadata store has issued

\* What the review entry points never touch.
aux == <<ret, calls, lastID>>

vars == <<store, op, err, thAttestations, thViolations, occ, ret, calls, lastID>>

\* ------------------------------------------------------------------ bounds

MaxImages == 1
MaxPolicies == 2
MaxAtts == 2

\* ------------------------------------------------------------------ images

Image(n, d) == [name |-> n, digest |-> d]

QualifiedImage == Image("gcr.io/image/digest", "sha256:aaaa")
IntTestImage == Image("gcr.io/kritis-int-test/java", "sha256:bbbb")
UnqualifiedImage == Image("image:tag", "")
AllowedImageName == Image("allowed_image_name", "")
GloballyAllowedImage == Image("gcr.io/kritis-project/preinstall", "")

Images ==
    {QualifiedImage, IntTestImage, UnqualifiedImage, AllowedImageName,
     GloballyAllowedImage}

\* resolve.FullyQualifiedImage: the reference is pinned by a digest.
FullyQualifiedImage(image) == image.digest # ""

\* util.RemoveGloballyAllowedImages: exact match against the operator's list.
GlobalAllowlist == {GloballyAllowedImage}

\* Mutant: the global allowlist is not applied.
RemoveGloballyAllowedImages_None(images) == images

RECURSIVE RemoveGloballyAllowedImages(_)
RemoveGloballyAllowedImages(images) ==
    IF Len(images) = 0 THEN <<>>
    ELSE IF Head(images) \in GlobalAllowlist
         THEN RemoveGloballyAllowedImages(Tail(images))
         ELSE <<Head(images)>> \o RemoveGloballyAllowedImages(Tail(images))

\* ------------------------------------------------------------ keys, secrets

\* testutil.CreateSecret: a PGP key pair and the fingerprint of its public key.
Secret(priv, pub, fpr) == [PrivateKey |-> priv, PublicKey |-> pub, Fingerprint |-> fpr]

sec == Secret("sec", "pub", "FPR1")
sec2 == Secret("sec2", "pub2", "FPR2")

\* sMock of TestReviewGAP: the secret resolver.
sMock(name) ==
    IF name = "sec" THEN [err |-> "nil", secret |-> sec]
    ELSE IF name = "sec2" THEN [err |-> "nil", secret |-> sec2]
    ELSE [err |-> "no such secret", secret |-> sec]

PublicKey(keyType, keyData, id) == [KeyType |-> keyType, KeyData |-> keyData, ID |-> id]

\* authMock of TestReviewGAP: the authority resolver.
authMap ==
    [n \in {"test", "test2"} |->
        IF n = "test"
        THEN [Name |-> "test", NoteReference |-> "projects/test-1/notes/note-1",
              PublicKeys |-> <<PublicKey("PGP", sec.PublicKey, sec.Fingerprint)>>]
        ELSE [Name |-> "test2", NoteReference |-> "projects/test-1/notes/note-2",
              PublicKeys |-> <<PublicKey("PGP", sec2.PublicKey, sec2.Fingerprint)>>]]

NoAuthority == [Name |-> "", NoteReference |-> "", PublicKeys |-> <<>>]

authMock(name) ==
    IF name \in DOMAIN authMap
    THEN [err |-> "nil", auth |-> authMap[name]]
    ELSE [err |-> "no such attestation authority", auth |-> NoAuthority]

\* ------------------------------------------------------------- attestations

\* The container-signature payload: the image name and digest that were signed.
AtomicContainerPayload(image) == [name |-> image.name, digest |-> image.digest]

Attestation(keyID, signedBy, payload) ==
    [PublicKeyID |-> keyID,
     Signature |-> [signedBy |-> signedBy, payload |-> payload],
     SerializedPayload |-> payload]

\* util.CreateAttestation: a PGP attestation of `image` made with `secret`.
CreateAttestation(image, secret) ==
    Attestation(secret.Fingerprint, secret.PrivateKey, AtomicContainerPayload(image))

\* ----------------------------------------------------------------- verifier

\* pgpVerifierImpl.verifyPgp: the inline signature verifies under the public key
\* of the private key that made it, and yields the payload it embeds.
verifyPgp(signature, publicKey) ==
    IF \E s \in {sec, sec2} :
           s.PrivateKey = signature.signedBy /\ s.PublicKey = publicKey
    THEN [err |-> "nil", payload |-> signature.payload]
    ELSE [err |-> "pgp verification failed", payload |-> signature.payload]

\* Mutant: the PKIX strategy accepts every signature.
verifyPkix_AcceptsAll(signature, payload, publicKey) == "nil"

\* pkixVerifierImpl.verifyPkix
verifyPkix(signature, payload, publicKey) == "verify pkix not implemented"

\* jwtVerifierImpl.verifyJwt: the token verifies under the key that signed it.
verifyJwt(signature, publicKey) ==
    IF \E s \in {sec, sec2} :
           s.PrivateKey = signature.signedBy /\ s.PublicKey = publicKey.KeyData
    THEN [err |-> "nil", payload |-> signature.payload]
    ELSE [err |-> "jwt verification failed", payload |-> signature.payload]

\* authenticatedAttCheckerImpl.checkAuthenticatedAttestation
checkAuthenticatedAttestation(payload, imageName, imageDigest) ==
    IF payload.name # imageName THEN "wrong image name in payload"
    ELSE IF payload.digest # imageDigest THEN "wrong image digest in payload"
    ELSE "nil"

RECURSIVE indexFrom(_, _, _)
indexFrom(publicKeyset, i, keyMap) ==
    IF i > Len(publicKeyset) THEN keyMap
    ELSE LET publicKey == publicKeyset[i] IN
         indexFrom(publicKeyset, i + 1,
                   [id \in DOMAIN keyMap \cup {publicKey.ID} |->
                       IF id = publicKey.ID THEN publicKey ELSE keyMap[id]])

\* Mutant: the index is keyed by the key material instead of the key ID.
indexPublicKeysByID_ByKeyData(publicKeyset) ==
    [d \in {publicKeyset[i].KeyData : i \in 1..Len(publicKeyset)} |->
        publicKeyset[CHOOSE i \in 1..Len(publicKeyset) : publicKeyset[i].KeyData = d]]

\* Mutant: the first key carrying an ID is kept.
indexPublicKeysByID_FirstWins(publicKeyset) ==
    [id \in {publicKeyset[i].ID : i \in 1..Len(publicKeyset)} |->
        publicKeyset[CHOOSE i \in 1..Len(publicKeyset) :
                         /\ publicKeyset[i].ID = id
                         /\ \A j \in 1..(i - 1) : publicKeyset[j].ID # id]]

indexPublicKeysByID(publicKeyset) ==
    indexFrom(publicKeyset, 1, [id \in {} |-> PublicKey("", "", "")])

\* Mutant: the image reference is not required to carry a digest.
NewVerifier_AcceptsTag(image, publicKeySet) ==
    [err |-> "nil",
     ImageName |-> image.name, ImageDigest |-> image.digest,
     PublicKeys |-> indexPublicKeysByID(publicKeySet)]

NewVerifier(image, publicKeySet) ==
    IF image.digest = ""
    THEN [err |-> "invalid image name",
          ImageName |-> "", ImageDigest |-> "", PublicKeys |-> indexPublicKeysByID(<<>>)]
    ELSE [err |-> "nil",
          ImageName |-> image.name, ImageDigest |-> image.digest,
          PublicKeys |-> indexPublicKeysByID(publicKeySet)]

\* Mutant: the recovered payload is not checked against the image.
VerifyAttestation_NoPayloadCheck(v, att) ==
    IF att.PublicKeyID \notin DOMAIN v.PublicKeys
    THEN "no public key with ID found"
    ELSE LET publicKey == v.PublicKeys[att.PublicKeyID]
             res == IF publicKey.KeyType = "PKIX"
                    THEN [err |-> verifyPkix(att.Signature, att.SerializedPayload,
                                             publicKey.KeyData),
                          payload |-> att.SerializedPayload]
                    ELSE IF publicKey.KeyType = "PGP"
                    THEN verifyPgp(att.Signature, publicKey.KeyData)
                    ELSE IF publicKey.KeyType = "JWT"
                    THEN verifyJwt(att.Signature, publicKey)
                    ELSE [err |-> "signature uses an unsupported key mode",
                          payload |-> att.SerializedPayload]
         IN  res.err

\* Mutant: the error of the signature verification is dropped.
VerifyAttestation_IgnoreError(v, att) ==
    IF att.PublicKeyID \notin DOMAIN v.PublicKeys
    THEN "no public key with ID found"
    ELSE LET publicKey == v.PublicKeys[att.PublicKeyID]
             res == IF publicKey.KeyType = "PKIX"
                    THEN [err |-> verifyPkix(att.Signature, att.SerializedPayload,
                                             publicKey.KeyData),
                          payload |-> att.SerializedPayload]
                    ELSE IF publicKey.KeyType = "PGP"
                    THEN verifyPgp(att.Signature, publicKey.KeyData)
                    ELSE IF publicKey.KeyType = "JWT"
                    THEN verifyJwt(att.Signature, publicKey)
                    ELSE [err |-> "signature uses an unsupported key mode",
                          payload |-> att.SerializedPayload]
         IN  checkAuthenticatedAttestation(res.payload, v.ImageName, v.ImageDigest)

\* Mutant: when the named key does not verify the signature, the other keys are tried.
VerifyAttestation_TriesAllKeys(v, att) ==
    IF \E id \in DOMAIN v.PublicKeys :
           /\ v.PublicKeys[id].KeyType = "PGP"
           /\ verifyPgp(att.Signature, v.PublicKeys[id].KeyData).err = "nil"
    THEN checkAuthenticatedAttestation(att.Signature.payload, v.ImageName, v.ImageDigest)
    ELSE IF att.PublicKeyID \notin DOMAIN v.PublicKeys
    THEN "no public key with ID found"
    ELSE LET publicKey == v.PublicKeys[att.PublicKeyID]
             res == IF publicKey.KeyType = "PKIX"
                    THEN [err |-> verifyPkix(att.Signature, att.SerializedPayload,
                                             publicKey.KeyData),
                          payload |-> att.SerializedPayload]
                    ELSE IF publicKey.KeyType = "PGP"
                    THEN verifyPgp(att.Signature, publicKey.KeyData)
                    ELSE IF publicKey.KeyType = "JWT"
                    THEN verifyJwt(att.Signature, publicKey)
                    ELSE [err |-> "signature uses an unsupported key mode",
                          payload |-> att.SerializedPayload]
         IN  IF res.err # "nil" THEN res.err
             ELSE checkAuthenticatedAttestation(res.payload, v.ImageName, v.ImageDigest)

\* Mutant: the payload compared with the image is the attestation's own field.
VerifyAttestation_UsesSerializedPayload(v, att) ==
    IF att.PublicKeyID \notin DOMAIN v.PublicKeys
    THEN "no public key with ID found"
    ELSE LET publicKey == v.PublicKeys[att.PublicKeyID]
             res == IF publicKey.KeyType = "PKIX"
                    THEN [err |-> verifyPkix(att.Signature, att.SerializedPayload,
                                             publicKey.KeyData),
                          payload |-> att.SerializedPayload]
                    ELSE IF publicKey.KeyType = "PGP"
                    THEN verifyPgp(att.Signature, publicKey.KeyData)
                    ELSE IF publicKey.KeyType = "JWT"
                    THEN verifyJwt(att.Signature, publicKey)
                    ELSE [err |-> "signature uses an unsupported key mode",
                          payload |-> att.SerializedPayload]
         IN  IF res.err # "nil" THEN res.err
             ELSE checkAuthenticatedAttestation(att.SerializedPayload, v.ImageName,
                                                v.ImageDigest)

\* The verification strategies VerifyAttestation hands the signature to.
strategiesCalled(v, att) ==
    IF att.PublicKeyID \notin DOMAIN v.PublicKeys THEN <<>>
    ELSE LET publicKey == v.PublicKeys[att.PublicKeyID] IN
         IF publicKey.KeyType = "PKIX" THEN <<"verifyPkix">>
         ELSE IF publicKey.KeyType = "PGP" THEN <<"verifyPgp">>
         ELSE IF publicKey.KeyType = "JWT" THEN <<"verifyJwt">>
         ELSE <<>>

VerifyAttestation(v, att) ==
    IF att.PublicKeyID \notin DOMAIN v.PublicKeys
    THEN "no public key with ID found"
    ELSE LET publicKey == v.PublicKeys[att.PublicKeyID]
             res == IF publicKey.KeyType = "PKIX"
                    THEN [err |-> verifyPkix(att.Signature, att.SerializedPayload,
                                             publicKey.KeyData),
                          payload |-> att.SerializedPayload]
                    ELSE IF publicKey.KeyType = "PGP"
                    THEN verifyPgp(att.Signature, publicKey.KeyData)
                    ELSE IF publicKey.KeyType = "JWT"
                    THEN verifyJwt(att.Signature, publicKey)
                    ELSE [err |-> "signature uses an unsupported key mode",
                          payload |-> att.SerializedPayload]
         IN  IF res.err # "nil" THEN res.err
             ELSE checkAuthenticatedAttestation(res.payload, v.ImageName, v.ImageDigest)

\* ------------------------------------------------------------ metadata store

QualifiedImages == {i \in Images : FullyQualifiedImage(i)}

\* The attestations some party may have uploaded for an image: made with either
\* key for that image, made for another image (a replay), carrying the ID of a
\* key that did not sign them, or made for a tag.
UploadableAtts(image) ==
    IF image = QualifiedImage
    THEN {CreateAttestation(image, sec), CreateAttestation(image, sec2),
          CreateAttestation(IntTestImage, sec),
          Attestation(sec.Fingerprint, sec2.PrivateKey, AtomicContainerPayload(image))}
    ELSE IF image \in {IntTestImage, UnqualifiedImage}
    THEN {CreateAttestation(image, sec)}
    ELSE {}

Occurrence(image, att) == [image |-> image, att |-> att]

\* MetadataClient.Attestations: the attestations stored for the image.
Attestations(c, image) == {o.att : o \in {x \in c : x.image = image}}

\* MetadataClient.UploadAttestationOccurrence
UploadAttestationOccurrence(c, image, att) == c \cup {Occurrence(image, att)}

\* ----------------------------------------------------------------- policies

GAP(ns, patterns, names) ==
    [Namespace |-> ns, AdmissionAllowlistPatterns |-> patterns,
     AttestationAuthorityNames |-> names]

ImageRef(image) ==
    IF image.digest = "" THEN image.name ELSE image.name \o "@" \o image.digest

oneGAP == GAP("foo", <<"allowed_image_name">>, <<"test">>)
barGAP == GAP("bar", <<>>, <<"test2">>)
gapWithTwoAAs == GAP("foo", <<>>, <<"test", "test2">>)
gapWithoutAA == GAP("foo", <<"allowed_image_name">>, <<>>)
gapUnresolved == GAP("baz", <<"allowed_image_name">>, <<"test", "missing">>)
gapAllowingDigest == GAP("qux", <<"gcr.io/image/digest@sha256:aaaa">>, <<"test2">>)

GAPs ==
    {oneGAP, barGAP, gapWithTwoAAs, gapWithoutAA, gapUnresolved, gapAllowingDigest}

ISP(ns, authority, secret) ==
    [Namespace |-> ns, AttestationAuthorityName |-> authority,
     PrivateKeySecretName |-> secret]

ISPs ==
    {ISP("foo", "test", "sec"), ISP("bar", "test2", "sec2"),
     ISP("baz", "missing", "sec")}

\* Images whose scan reports a vulnerability over the policy's threshold.
VulnImages == {QualifiedImage}

\* Config.Validate: the violations of the image under the ISP.
Validate(isp, image) ==
    IF ~FullyQualifiedImage(image) THEN <<"UnqualifiedImageViolation">>
    ELSE IF image \in VulnImages THEN <<"SeverityViolation">>
    ELSE <<>>

\* ------------------------------------------------------------ review engine

\* MemoryStrategy.HandleAttestation / HandleViolation: f[image] = v
Handle(f, image, v) ==
    [x \in DOMAIN f \cup {image} |-> IF x = image THEN v ELSE f[x]]

NoRecords == [x \in {} |-> FALSE]

RECURSIVE resolveFrom(_, _, _)
resolveFrom(names, i, auths) ==
    IF i > Len(names) THEN [err |-> "nil", auths |-> auths]
    ELSE LET a == authMock(names[i]) IN
         IF a.err # "nil" THEN [err |-> a.err, auths |-> <<>>]
         ELSE resolveFrom(names, i + 1, Append(auths, a.auth))

getAttestationAuthoritiesForGAP(gap) ==
    resolveFrom(gap.AttestationAuthorityNames, 1, <<>>)

\* Mutant: an authority that does not resolve is taken as no authority.
getAttestationAuthorityForISP_Lenient(isp) ==
    IF isp.AttestationAuthorityName \in DOMAIN authMap
    THEN authMock(isp.AttestationAuthorityName)
    ELSE [err |-> "nil", auth |-> NoAuthority]

\* An ISP that names no authority has none, and that is no error.
getAttestationAuthorityForISP(isp) ==
    IF isp.AttestationAuthorityName = ""
    THEN [err |-> "nil", auth |-> NoAuthority]
    ELSE authMock(isp.AttestationAuthorityName)

\* At least one of the attestations verifies against the authority's keys.
hasValidAttestation(image, auth, atts) ==
    LET v == NewVerifier(image, auth.PublicKeys) IN
    /\ v.err = "nil"
    /\ \E att \in atts : VerifyAttestation(v, att) = "nil"

\* Mutant: the pattern is compared with the repository name, not the reference.
isAllowlisted_ByName(gap, image) ==
    \E i \in 1..Len(gap.AdmissionAllowlistPatterns) :
        gap.AdmissionAllowlistPatterns[i] = image.name

isAllowlisted(gap, image) ==
    \E i \in 1..Len(gap.AdmissionAllowlistPatterns) :
        gap.AdmissionAllowlistPatterns[i] = ImageRef(image)

\* Every authority of the list has a verifying attestation among `atts`.
allAuthoritiesAttest(image, auths, atts) ==
    \A i \in 1..Len(auths) : hasValidAttestation(image, auths[i], atts)

\* Mutant: a policy without authorities has its (empty) quorum.
RECURSIVE reviewImageGAP_EmptyQuorum(_, _, _, _)
reviewImageGAP_EmptyQuorum(image, gaps, k, atts) ==
    IF k > Len(gaps) THEN [err |-> "nil", res |-> "unsatisfied"]
    ELSE LET gap == gaps[k] IN
         IF isAllowlisted(gap, image)
         THEN [err |-> "nil", res |-> "allowlisted"]
         ELSE LET r == getAttestationAuthoritiesForGAP(gap) IN
              IF r.err # "nil" THEN [err |-> r.err, res |-> "error"]
              ELSE IF allAuthoritiesAttest(image, r.auths, atts)
              THEN [err |-> "nil", res |-> "attested"]
              ELSE reviewImageGAP_EmptyQuorum(image, gaps, k + 1, atts)

\* Mutant: the allowlist is consulted before the authorities are counted.
RECURSIVE reviewImageGAP_AllowlistFirst(_, _, _, _)
reviewImageGAP_AllowlistFirst(image, gaps, k, atts) ==
    IF k > Len(gaps) THEN [err |-> "nil", res |-> "unsatisfied"]
    ELSE LET gap == gaps[k] IN
         IF isAllowlisted(gap, image)
         THEN [err |-> "nil", res |-> "allowlisted"]
         ELSE IF Len(gap.AttestationAuthorityNames) = 0
         THEN reviewImageGAP_AllowlistFirst(image, gaps, k + 1, atts)
         ELSE LET r == getAttestationAuthoritiesForGAP(gap) IN
              IF r.err # "nil" THEN [err |-> r.err, res |-> "error"]
              ELSE IF allAuthoritiesAttest(image, r.auths, atts)
              THEN [err |-> "nil", res |-> "attested"]
              ELSE reviewImageGAP_AllowlistFirst(image, gaps, k + 1, atts)

\* One image against the policies gaps[k..]: "attested", "allowlisted",
\* "unsatisfied", or the error of an authority that does not resolve.
RECURSIVE reviewImageGAP(_, _, _, _)
reviewImageGAP(image, gaps, k, atts) ==
    IF k > Len(gaps) THEN [err |-> "nil", res |-> "unsatisfied"]
    ELSE LET gap == gaps[k] IN
         IF Len(gap.AttestationAuthorityNames) = 0
         THEN reviewImageGAP(image, gaps, k + 1, atts)
         ELSE IF isAllowlisted(gap, image)
         THEN [err |-> "nil", res |-> "allowlisted"]
         ELSE LET r == getAttestationAuthoritiesForGAP(gap) IN
              IF r.err # "nil" THEN [err |-> r.err, res |-> "error"]
              ELSE IF allAuthoritiesAttest(image, r.auths, atts)
              THEN [err |-> "nil", res |-> "attested"]
              ELSE reviewImageGAP(image, gaps, k + 1, atts)

RECURSIVE reviewGAPFrom(_, _, _, _, _)
reviewGAPFrom(images, gaps, c, i, th) ==
    IF i > Len(images) THEN [err |-> "nil", th |-> th]
    ELSE LET image == images[i]
             r == reviewImageGAP(image, gaps, 1, Attestations(c, image))
         IN  IF r.res = "error" THEN [err |-> r.err, th |-> th]
             ELSE IF r.res = "allowlisted"
             THEN reviewGAPFrom(images, gaps, c, i + 1, th)
             ELSE IF r.res = "attested"
             THEN reviewGAPFrom(images, gaps, c, i + 1, Handle(th, image, TRUE))
             ELSE [err |-> "image is not attested", th |-> Handle(th, image, FALSE)]

ReviewGAP(images, gaps, c) ==
    LET imgs == RemoveGloballyAllowedImages(images) IN
    IF Len(imgs) = 0 THEN [err |-> "nil", th |-> NoRecords]
    ELSE IF Len(gaps) = 0 THEN [err |-> "nil", th |-> NoRecords]
    ELSE reviewGAPFrom(imgs, gaps, c, 1, NoRecords)

\* The (image, ISP) pairs of a review, image by image: step k of the loop.
RECURSIVE reviewISPFrom(_, _, _, _, _)
reviewISPFrom(images, isps, isWebhook, k, st) ==
    IF k > Len(images) * Len(isps) THEN st
    ELSE LET image == images[((k - 1) \div Len(isps)) + 1]
             isp == isps[((k - 1) % Len(isps)) + 1]
             a == getAttestationAuthorityForISP(isp)
             isAttested == hasValidAttestation(image, a.auth, Attestations(st.c, image))
             thA == Handle(st.thA, image, isAttested)
             violations == Validate(isp, image)
             att == CreateAttestation(image, sMock(isp.PrivateKeySecretName).secret)
         IN  IF a.err # "nil" THEN [st EXCEPT !.err = a.err]
             ELSE IF isAttested /\ isWebhook
             THEN reviewISPFrom(images, isps, isWebhook, k + 1, [st EXCEPT !.thA = thA])
             ELSE IF Len(violations) # 0
             THEN [st EXCEPT !.err = "found violations", !.thA = thA,
                             !.thV = Handle(st.thV, image, violations)]
             ELSE IF isWebhook
             THEN reviewISPFrom(images, isps, isWebhook, k + 1,
                      [st EXCEPT !.thA = thA,
                                 !.c = UploadAttestationOccurrence(st.c, image, att),
                                 !.occ = st.occ \cup {Occurrence(image, att)}])
             ELSE reviewISPFrom(images, isps, isWebhook, k + 1, [st EXCEPT !.thA = thA])

ReviewISP(images, isps, isWebhook, c) ==
    LET imgs == RemoveGloballyAllowedImages(images)
        st0 == [err |-> "nil", c |-> c, occ |-> {}, thA |-> NoRecords, thV |-> NoRecords]
    IN  IF Len(imgs) = 0 THEN st0
        ELSE IF Len(isps) = 0 THEN st0
        ELSE reviewISPFrom(imgs, isps, isWebhook, 1, st0)

\* ---------------------------------------------------------------- behaviour

SeqsUpTo(S, n) == UNION {[1..m -> S] : m \in 0..n}

Call(kind, images, policies, isWebhook, c) ==
    [kind |-> kind, images |-> images, policies |-> policies,
     isWebhook |-> isWebhook, store |-> c]

Init ==
    /\ store = {}
    /\ op = Call("none", <<>>, <<>>, TRUE, {})
    /\ err = "nil"
    /\ thAttestations = NoRecords
    /\ thViolations = NoRecords
    /\ occ = {}
    /\ ret = "none"
    /\ calls = <<>>
    /\ lastID = 0

\* Some party (a signer run, an operator) uploads an attestation occurrence.
Upload ==
    /\ op.kind = "none"
    /\ Cardinality(store) < MaxAtts
    /\ \E image \in Images : \E att \in UploadableAtts(image) :
           store' = UploadAttestationOccurrence(store, image, att)
    /\ store' # store
    /\ UNCHANGED <<op, err, thAttestations, thViolations, occ>>
    /\ UNCHANGED aux

DoReviewGAP ==
    /\ op.kind = "none"
    /\ \E images \in SeqsUpTo(Images, MaxImages) \ {<<>>} :
       \E gaps \in SeqsUpTo(GAPs, MaxPolicies) :
           LET r == ReviewGAP(images, gaps, store) IN
           /\ op' = Call("ReviewGAP", images, gaps, TRUE, store)
           /\ err' = r.err
           /\ thAttestations' = r.th
           /\ thViolations' = NoRecords
           /\ occ' = {}
           /\ UNCHANGED store
           /\ UNCHANGED aux

DoReviewISP ==
    /\ op.kind = "none"
    /\ \E images \in SeqsUpTo(Images, MaxImages) \ {<<>>} :
       \E isps \in SeqsUpTo(ISPs, MaxPolicies) :
       \E isWebhook \in BOOLEAN :
           LET r == ReviewISP(images, isps, isWebhook, store) IN
           /\ op' = Call("ReviewISP", images, isps, isWebhook, store)
           /\ err' = r.err
           /\ thAttestations' = r.thA
           /\ thViolations' = r.thV
           /\ occ' = r.occ
           /\ store' = r.c
           /\ UNCHANGED aux

\* review.New: the next batch gets a new Reviewer with an empty MemoryStrategy.
New ==
    /\ op.kind # "none"
    /\ op' = Call("none", <<>>, <<>>, TRUE, {})
    /\ err' = "nil"
    /\ thAttestations' = NoRecords
    /\ thViolations' = NoRecords
    /\ occ' = {}
    /\ ret' = "none"
    /\ calls' = <<>>
    /\ UNCHANGED <<store, lastID>>

Next == Upload \/ DoReviewGAP \/ DoReviewISP \/ New

Spec == Init /\ [][Next]_vars

\* ---------------------------------------------------------------- properties

\* The images of the batch that are not on the global allowlist.
Reviewed == {op.images[i] : i \in 1..Len(op.images)} \ GlobalAllowlist

\* The attestations the store held for the image when the review started.
Fetched(image) == {o.att : o \in {x \in op.store : x.image = image}}

\* The attestation is authentic for the image under the named authority: it names
\* one of the authority's keys, that key's private half made the signature, and
\* the signed payload is this digest-pinned image.
Authentic(att, image, name) ==
    /\ name \in DOMAIN authMap
    /\ image.digest # ""
    /\ att.Signature.payload.name = image.name
    /\ att.Signature.payload.digest = image.digest
    /\ \E i \in 1..Len(authMap[name].PublicKeys) :
           LET k == authMap[name].PublicKeys[i] IN
           /\ k.ID = att.PublicKeyID
           /\ \E s \in {sec, sec2} :
                  s.PublicKey = k.KeyData /\ s.PrivateKey = att.Signature.signedBy

Covered(image, name) == \E att \in Fetched(image) : Authentic(att, image, name)

Quorum(image, gap) ==
    /\ Len(gap.AttestationAuthorityNames) > 0
    /\ \A i \in 1..Len(gap.AttestationAuthorityNames) :
           Covered(image, gap.AttestationAuthorityNames[i])

Matches(image, gap) ==
    \E i \in 1..Len(gap.AdmissionAllowlistPatterns) :
        gap.AdmissionAllowlistPatterns[i] = ImageRef(image)

Resolvable(names) == \A i \in 1..Len(names) : names[i] \in DOMAIN authMap

PoliciesResolve ==
    \A k \in 1..Len(op.policies) : Resolvable(op.policies[k].AttestationAuthorityNames)

HasRequiredAtts(image) == image \in DOMAIN thAttestations /\ thAttestations[image]

UploadedFor(image) == {o \in occ : o.image = image}

OneImageOneGAP ==
    /\ op.kind = "ReviewGAP"
    /\ Len(op.images) = 1
    /\ Len(op.policies) = 1
    /\ op.images[1] \notin GlobalAllowlist

\* C1: one image, one GAP with at least one authority, image not allowlisted: the
\* review passes and records hasRequiredAtts = true iff every listed authority has
\* an authentic attestation among those fetched; otherwise it fails and
\* hasRequiredAtts is not true.
C1_AllAuthoritiesRequired ==
    (/\ OneImageOneGAP
     /\ Len(op.policies[1].AttestationAuthorityNames) > 0
     /\ ~Matches(op.images[1], op.policies[1]))
    => /\ (err = "nil" /\ HasRequiredAtts(op.images[1]))
              <=> Quorum(op.images[1], op.policies[1])
       /\ ~Quorum(op.images[1], op.policies[1])
              => (err # "nil" /\ ~HasRequiredAtts(op.images[1]))

\* C1 witness: a policy with two authorities passed with two attestations, each of
\* which fails to verify for the other authority.
C1_Witness ==
    /\ OneImageOneGAP
    /\ Len(op.policies[1].AttestationAuthorityNames) = 2
    /\ ~Matches(op.images[1], op.policies[1])
    /\ err = "nil"
    /\ HasRequiredAtts(op.images[1])
    /\ \E att \in Fetched(op.images[1]) : ~Authentic(att, op.images[1], "test2")

\* C2: several GAPs whose authorities resolve: the review passes iff every image
\* satisfies at least one policy (by allowlist or by full quorum);
\* hasRequiredAtts = true is recorded only for an image with the full quorum of
\* some policy; with no policy at all the review passes and records nothing.
C2_AnyPolicySuffices ==
    (op.kind = "ReviewGAP" /\ PoliciesResolve)
    => /\ Len(op.policies) = 0 => (err = "nil" /\ thAttestations = NoRecords)
       /\ Len(op.policies) > 0 =>
              (err = "nil" <=>
                  \A image \in Reviewed : \E k \in 1..Len(op.policies) :
                      \/ Quorum(image, op.policies[k])
                      \/ /\ Matches(image, op.policies[k])
                         /\ Len(op.policies[k].AttestationAuthorityNames) > 0)
       /\ \A image \in Reviewed :
              HasRequiredAtts(image) =>
                  \E k \in 1..Len(op.policies) : Quorum(image, op.policies[k])

\* C2 witness: two policies, the image has the quorum of exactly one and is not
\* allowlisted by either; the review passes.
C2_Witness ==
    /\ op.kind = "ReviewGAP"
    /\ Len(op.policies) = 2
    /\ PoliciesResolve
    /\ \E image \in Reviewed :
           /\ ~Quorum(image, op.policies[1])
           /\ Quorum(image, op.policies[2])
           /\ ~Matches(image, op.policies[1])
           /\ ~Matches(image, op.policies[2])
           /\ HasRequiredAtts(image)
    /\ err = "nil"

AllWithoutAuthorities ==
    /\ Len(op.policies) > 0
    /\ \A k \in 1..Len(op.policies) : Len(op.policies[k].AttestationAuthorityNames) = 0

\* C3: policies without any authority, an image matching none of their patterns:
\* the review fails and hasRequiredAtts = true is not recorded, whatever
\* attestations the image has.
C3_NoAuthoritiesFails ==
    (/\ op.kind = "ReviewGAP"
     /\ AllWithoutAuthorities
     /\ \E image \in Reviewed : \A k \in 1..Len(op.policies) : ~Matches(image, op.policies[k]))
    => /\ err # "nil"
       /\ \A image \in Reviewed : ~HasRequiredAtts(image)

\* C3 witness: the image carries an attestation that is authentic for an authority.
C3_Witness ==
    /\ op.kind = "ReviewGAP"
    /\ AllWithoutAuthorities
    /\ \E image \in Reviewed :
           /\ \A k \in 1..Len(op.policies) : ~Matches(image, op.policies[k])
           /\ Covered(image, "test")
    /\ err # "nil"

\* C4 as stated: an image matching an allowlist pattern of the policy passes the
\* review, whether or not the policy lists an authority.
C4_AllowlistedAlwaysPasses ==
    (OneImageOneGAP /\ Matches(op.images[1], op.policies[1])) => err = "nil"

\* C4 as amended: an image matching an allowlist pattern of the policy passes the
\* review, with no attestation needed or recorded, iff the policy lists at least
\* one authority; a policy without authorities fails an allowlisted image too.
C4_AllowlistNeedsAnAuthority ==
    (OneImageOneGAP /\ Matches(op.images[1], op.policies[1]))
    => /\ err = "nil" <=> Len(op.policies[1].AttestationAuthorityNames) > 0
       /\ ~HasRequiredAtts(op.images[1])

\* C4 witness: the allowlisted image under the policy without authorities.
C4_Witness ==
    /\ OneImageOneGAP
    /\ Matches(op.images[1], op.policies[1])
    /\ Len(op.policies[1].AttestationAuthorityNames) = 0
    /\ err # "nil"

AllWithAuthorities ==
    /\ Len(op.policies) > 0
    /\ \A k \in 1..Len(op.policies) : Len(op.policies[k].AttestationAuthorityNames) > 0

\* C5: policies that each list at least one (resolvable) authority: when every
\* image matches an allowlist pattern of some policy the review passes, attested
\* or not; and an allowlisted image without the quorum of any policy is not
\* recorded as having the required attestations.
C5_AllowlistSkipsAttestation ==
    (op.kind = "ReviewGAP" /\ AllWithAuthorities /\ PoliciesResolve)
    => /\ (\A image \in Reviewed : \E k \in 1..Len(op.policies) :
               Matches(image, op.policies[k])) => err = "nil"
       /\ \A image \in Reviewed :
              (/\ \E k \in 1..Len(op.policies) : Matches(image, op.policies[k])
               /\ \A k \in 1..Len(op.policies) : ~Quorum(image, op.policies[k]))
              => ~HasRequiredAtts(image)

\* C5 witness: the image is allowlisted by the second of two policies only and
\* has no attestation at all.
C5_Witness ==
    /\ op.kind = "ReviewGAP"
    /\ AllWithAuthorities
    /\ PoliciesResolve
    /\ Len(op.policies) = 2
    /\ \E image \in Reviewed :
           /\ ~Matches(image, op.policies[1])
           /\ Matches(image, op.policies[2])
           /\ Fetched(image) = {}
           /\ ~HasRequiredAtts(image)
    /\ err = "nil"

\* The authorities of all ISPs of the call resolve, and there is an ISP.
ISPsResolve ==
    /\ Len(op.policies) > 0
    /\ \A k \in 1..Len(op.policies) :
           op.policies[k].AttestationAuthorityName \in DOMAIN authMap

\* The image has an authentic attestation under the authority of every ISP.
AttestedForAll(image) ==
    \A k \in 1..Len(op.policies) :
        Covered(image, op.policies[k].AttestationAuthorityName)

\* The evaluator reports violations for the image under some ISP of the call.
HasViolations(image) ==
    \E k \in 1..Len(op.policies) : Len(Validate(op.policies[k], image)) > 0

ViolationsRecorded(image) ==
    /\ image \in DOMAIN thViolations
    /\ \E k \in 1..Len(op.policies) : thViolations[image] = Validate(op.policies[k], image)

\* C6: webhook mode, every image attested under the ISPs' authorities: the review
\* passes, records the images as attested, records no violation even where the
\* evaluator reports some, and uploads nothing.
C6_WebhookAttestedPasses ==
    (/\ op.kind = "ReviewISP"
     /\ op.isWebhook
     /\ ISPsResolve
     /\ \A image \in Reviewed : AttestedForAll(image))
    => /\ err = "nil"
       /\ \A image \in Reviewed : HasRequiredAtts(image)
       /\ thViolations = NoRecords
       /\ occ = {}
       /\ store = op.store

\* C6 witness: an attested image for which the evaluator reports violations.
C6_Witness ==
    /\ op.kind = "ReviewISP"
    /\ op.isWebhook
    /\ ISPsResolve
    /\ \E image \in Reviewed : AttestedForAll(image) /\ HasViolations(image)
    /\ \A image \in Reviewed : AttestedForAll(image)
    /\ err = "nil"

OneISP ==
    /\ op.kind = "ReviewISP"
    /\ Len(op.policies) = 1
    /\ op.policies[1].AttestationAuthorityName \in DOMAIN authMap

Unattested(image) == ~Covered(image, op.policies[1].AttestationAuthorityName)

\* C7: webhook mode with one ISP.  If some image is unattested and has violations,
\* the review fails, violations are recorded, and nothing is uploaded for such an
\* image.  Otherwise the review passes with no violation recorded, and exactly one
\* new attestation is uploaded for every unattested image, none for the others.
C7_WebhookUnattested ==
    (OneISP /\ op.isWebhook)
    => LET bad == {i \in Reviewed : Unattested(i) /\ HasViolations(i)} IN
       /\ bad # {} =>
              /\ err # "nil"
              /\ \E image \in bad : ViolationsRecorded(image)
              /\ \A image \in bad : UploadedFor(image) = {}
       /\ bad = {} =>
              /\ err = "nil"
              /\ thViolations = NoRecords
              /\ store = op.store \cup occ
              /\ \A image \in Reviewed :
                     IF Unattested(image)
                     THEN /\ Cardinality(UploadedFor(image)) = 1
                          /\ UploadedFor(image) \cap op.store = {}
                     ELSE UploadedFor(image) = {}
       /\ \A o \in occ : o.image \in Reviewed

\* C7 witness: an unattested image without violations got its new attestation.
C7_Witness ==
    /\ OneISP
    /\ op.isWebhook
    /\ err = "nil"
    /\ \E image \in Reviewed : Unattested(image) /\ Cardinality(UploadedFor(image)) = 1

\* C7, the other case reached: an image with violations whose only attestation
\* is not authentic was refused.
C7_WitnessRefused ==
    /\ OneISP
    /\ op.isWebhook
    /\ err # "nil"
    /\ \E image \in Reviewed :
           /\ Unattested(image)
           /\ Fetched(image) # {}
           /\ ViolationsRecorded(image)

\* C8: periodic mode never uploads and never changes the store.  With resolvable
\* ISPs, the review fails and records violations iff some image has violations,
\* attested or not; with one ISP, an image is recorded as attested iff it has an
\* authentic attestation under the ISP's authority.
C8_PeriodicOnlyReports ==
    (op.kind = "ReviewISP" /\ ~op.isWebhook)
    => /\ occ = {}
       /\ store = op.store
       /\ ISPsResolve =>
              /\ (\E image \in Reviewed : HasViolations(image)) =>
                     /\ err # "nil"
                     /\ \E image \in Reviewed : HasViolations(image) /\ ViolationsRecorded(image)
              /\ (\A image \in Reviewed : ~HasViolations(image)) =>
                     /\ err = "nil"
                     /\ thViolations = NoRecords
                     /\ Reviewed \subseteq DOMAIN thAttestations
       /\ OneISP =>
              \A image \in DOMAIN thAttestations : thAttestations[image] <=> ~Unattested(image)

\* C8 witness: an attested image with violations failed the periodic review.
C8_Witness ==
    /\ OneISP
    /\ ~op.isWebhook
    /\ err # "nil"
    /\ \E image \in Reviewed :
           /\ ~Unattested(image)
           /\ HasRequiredAtts(image)
           /\ ViolationsRecorded(image)

\* C9: an image without a digest fails the ISP review in both modes: the review
\* returns an error, the image is never recorded as attested, nothing is uploaded
\* for it, and when it is the first image reviewed the unqualified-image violation
\* is recorded for it.
C9_UnqualifiedFails ==
    (/\ op.kind = "ReviewISP"
     /\ ISPsResolve
     /\ \E image \in Reviewed : image.digest = "")
    => /\ err # "nil"
       /\ \A image \in Reviewed :
              image.digest = "" =>
                  /\ ~HasRequiredAtts(image)
                  /\ UploadedFor(image) = {}
                  /\ image \in DOMAIN thViolations =>
                         thViolations[image] = <<"UnqualifiedImageViolation">>
       /\ \E image \in Reviewed : image \in DOMAIN thViolations
       /\ \A i \in 1..Len(op.images) :
              (/\ op.images[i].digest = ""
               /\ op.images[i] \in Reviewed
               /\ \A j \in 1..(i - 1) : op.images[j] \in GlobalAllowlist)
              => op.images[i] \in DOMAIN thViolations

\* C9 witness: a tag that carries an attestation signed for it, in either mode.
C9_Witness ==
    /\ op.kind = "ReviewISP"
    /\ ISPsResolve
    /\ \E image \in Reviewed :
           /\ image.digest = ""
           /\ Fetched(image) # {}
           /\ image \in DOMAIN thViolations
    /\ err # "nil"

\* C10: a batch of globally allowlisted images passes ReviewGAP and ReviewISP under
\* any policies with nothing recorded and nothing uploaded; in any batch, a
\* globally allowlisted image is never recorded and gets no attestation.
C10_GlobalAllowlist ==
    op.kind \in {"ReviewGAP", "ReviewISP"}
    => /\ Reviewed = {} =>
              /\ err = "nil"
              /\ thAttestations = NoRecords
              /\ thViolations = NoRecords
              /\ occ = {}
              /\ store = op.store
       /\ \A image \in GlobalAllowlist :
              /\ image \notin DOMAIN thAttestations
              /\ image \notin DOMAIN thViolations
              /\ UploadedFor(image) = {}

\* C10 witnesses: the globally allowlisted image passed under a policy that fails
\* every other image.
C10_Witness ==
    /\ Reviewed = {}
    /\ err = "nil"
    /\ \/ /\ op.kind = "ReviewGAP"
          /\ AllWithoutAuthorities
       \/ /\ op.kind = "ReviewISP"
          /\ Len(op.policies) > 0
          /\ ~ISPsResolve

\* ------------------------------------------------------- the verifier alone

MaxKeys == 2

\* Public keys a policy author may hand to NewVerifier: the two PGP keys of the
\* authorities, a PKIX and a JWT key, a key of no supported type, and a second
\* key that carries the ID of the first with other key material.
VerifierKeys ==
    {PublicKey("PGP", sec.PublicKey, sec.Fingerprint),
     PublicKey("PGP", sec2.PublicKey, sec2.Fingerprint),
     PublicKey("PKIX", sec.PublicKey, "kid-pkix"),
     PublicKey("JWT", sec2.PublicKey, "kid-jwt"),
     PublicKey("UNKNOWN", sec.PublicKey, "kid-unknown"),
     PublicKey("PGP", sec2.PublicKey, sec.Fingerprint)}

VerifierKeyIDs == {k.ID : k \in VerifierKeys} \cup {"FPR-NOT-LISTED"}

\* The payloads an attestation may carry: either image, or the first image's
\* repository under another digest.
VerifierPayloads ==
    {AtomicContainerPayload(QualifiedImage), AtomicContainerPayload(IntTestImage),
     AtomicContainerPayload(Image(QualifiedImage.name, IntTestImage.digest))}

VerifierAtts ==
    {[Attestation(id, s.PrivateKey, p) EXCEPT !.SerializedPayload = q] :
        id \in VerifierKeyIDs, s \in {sec, sec2}, p \in VerifierPayloads,
        q \in VerifierPayloads}

\* The metadata store holds nothing, or one attestation for a pinned image.
VerifierStores ==
    {{}} \cup {{Occurrence(image, att)} : image \in QualifiedImages, att \in VerifierAtts}

VerifierInit ==
    /\ store \in VerifierStores
    /\ op = Call("none", <<>>, <<>>, TRUE, {})
    /\ err = "nil"
    /\ thAttestations = NoRecords
    /\ thViolations = NoRecords
    /\ occ = {}
    /\ ret = "none"
    /\ calls = <<>>
    /\ lastID = 0

\* NewVerifier(image, publicKeySet) followed by VerifyAttestation(att), for an
\* attestation of the store.
DoVerifyAttestation ==
    /\ op.kind = "none"
    /\ \E image \in {QualifiedImage, IntTestImage, UnqualifiedImage} :
       \E publicKeySet \in SeqsUpTo(VerifierKeys, MaxKeys) :
       \E att \in {o.att : o \in store} :
           LET v == NewVerifier(image, publicKeySet) IN
           /\ op' = [kind |-> "VerifyAttestation", image |-> image,
                     publicKeySet |-> publicKeySet, att |-> att]
           /\ err' = IF v.err # "nil" THEN v.err ELSE VerifyAttestation(v, att)
           /\ calls' = IF v.err # "nil" THEN <<>> ELSE strategiesCalled(v, att)
    /\ UNCHANGED <<store, thAttestations, thViolations, occ, ret, lastID>>

\* ReviewGAP of one pinned image under one policy, against the same store.
DoReviewStored ==
    /\ op.kind = "none"
    /\ \E image \in QualifiedImages : \E gap \in GAPs :
           LET r == ReviewGAP(<<image>>, <<gap>>, store) IN
           /\ op' = Call("ReviewGAP", <<image>>, <<gap>>, TRUE, store)
           /\ err' = r.err
           /\ thAttestations' = r.th
    /\ UNCHANGED <<store, thViolations, occ, aux>>

\* NewVerifier(image, publicKeySet) on its own: the verifier it builds.
DoNewVerifier ==
    /\ op.kind = "none"
    /\ \E image \in {QualifiedImage, UnqualifiedImage} :
       \E publicKeySet \in SeqsUpTo(VerifierKeys, MaxKeys) :
           LET v == NewVerifier(image, publicKeySet) IN
           /\ op' = [kind |-> "NewVerifier", image |-> image, publicKeySet |-> publicKeySet]
           /\ err' = v.err
           /\ ret' = v
    /\ UNCHANGED <<store, thAttestations, thViolations, occ, calls, lastID>>

\* hasValidAttestation for an authority that lists the keys, on the image's
\* attestations in the store.
DoHasValidAttestation ==
    /\ op.kind = "none"
    /\ \E image \in QualifiedImages :
       \E publicKeySet \in SeqsUpTo(VerifierKeys, MaxKeys) :
           LET auth == [Name |-> "test", NoteReference |-> "projects/test-1/notes/note-1",
                        PublicKeys |-> publicKeySet]
           IN  /\ op' = [kind |-> "hasValidAttestation", image |-> image,
                         publicKeySet |-> publicKeySet]
               /\ ret' = hasValidAttestation(image, auth, Attestations(store, image))
    /\ UNCHANGED <<store, err, thAttestations, thViolations, occ, calls, lastID>>

VerifierNext ==
    DoVerifyAttestation \/ DoNewVerifier \/ DoHasValidAttestation \/ DoReviewStored \/ New

VerifierSpec == VerifierInit /\ [][VerifierNext]_vars

\* The key the index holds for an ID: the last key of the set with that ID.
Listed(publicKeySet, id) ==
    \E i \in 1..Len(publicKeySet) : publicKeySet[i].ID = id

LastListed(publicKeySet, id) ==
    publicKeySet[CHOOSE i \in 1..Len(publicKeySet) :
                     /\ publicKeySet[i].ID = id
                     /\ \A j \in (i + 1)..Len(publicKeySet) : publicKeySet[j].ID # id]

\* The signature verifies under the key, by the rules of the key's type.
SignatureVerifies(k, att) ==
    /\ k.KeyType \in {"PGP", "JWT"}
    /\ \E s \in {sec, sec2} :
           s.PublicKey = k.KeyData /\ s.PrivateKey = att.Signature.signedBy

PayloadNames(att, image) ==
    /\ att.Signature.payload.name = image.name
    /\ att.Signature.payload.digest = image.digest

PayloadErrors == {"wrong image name in payload", "wrong image digest in payload"}

\* C11: VerifyAttestation succeeds only if a key with the attestation's
\* PublicKeyID is in the index, the signature verifies under that key, and the
\* recovered payload names the image (name and digest) the verifier was built for;
\* when the signature does not verify, the error is never the payload's; and in
\* ReviewGAP an attestation that is not authentic for the image does not count
\* toward the authority: the review fails.
C11_AuthenticNeedsAllThree ==
    /\ op.kind = "VerifyAttestation" =>
           /\ err = "nil" =>
                  /\ op.image.digest # ""
                  /\ Listed(op.publicKeySet, op.att.PublicKeyID)
                  /\ SignatureVerifies(LastListed(op.publicKeySet, op.att.PublicKeyID), op.att)
                  /\ PayloadNames(op.att, op.image)
           /\ (/\ Listed(op.publicKeySet, op.att.PublicKeyID)
               /\ ~SignatureVerifies(LastListed(op.publicKeySet, op.att.PublicKeyID), op.att))
                  => err \notin PayloadErrors \cup {"nil"}
    /\ (/\ op.kind = "ReviewGAP"
        /\ ~Matches(op.images[1], op.policies[1])
        /\ \E i \in 1..Len(op.policies[1].AttestationAuthorityNames) :
               ~Covered(op.images[1], op.policies[1].AttestationAuthorityNames[i]))
           => (err # "nil" /\ ~HasRequiredAtts(op.images[1]))

\* C11 witness: an attestation validly signed for one image, its key in the index,
\* presented to the verifier of another image, is rejected for its payload.
C11_Witness ==
    /\ op.kind = "VerifyAttestation"
    /\ op.image.digest # ""
    /\ Listed(op.publicKeySet, op.att.PublicKeyID)
    /\ SignatureVerifies(LastListed(op.publicKeySet, op.att.PublicKeyID), op.att)
    /\ op.att.Signature.payload.name # op.image.name
    /\ err \in PayloadErrors

\* The same replay in ReviewGAP: the store holds an attestation the authority signed
\* for another image, and the review fails.
C11_WitnessReview ==
    /\ op.kind = "ReviewGAP"
    /\ op.policies[1] = barGAP
    /\ \E att \in Fetched(op.images[1]) :
           /\ att.PublicKeyID = sec2.Fingerprint
           /\ att.Signature.signedBy = sec2.PrivateKey
           /\ ~PayloadNames(att, op.images[1])
    /\ err # "nil"

\* ------------------------------------------- vulnerability policy evaluator

MaxVulnz == 2

\* constants.Critical, constants.BlockAll, constants.AllowAll
Critical == "CRITICAL"
BlockAll == "BLOCK_ALL"
AllowAll == "ALLOW_ALL"

\* vulnerability.Severity_value: the recognized severities and their ranks.
Severity_value ==
    [s \in {"SEVERITY_UNSPECIFIED", "MINIMAL", "LOW", "MEDIUM", "HIGH", "CRITICAL"} |->
        IF s = "SEVERITY_UNSPECIFIED" THEN 0
        ELSE IF s = "MINIMAL" THEN 1
        ELSE IF s = "LOW" THEN 2
        ELSE IF s = "MEDIUM" THEN 3
        ELSE IF s = "HIGH" THEN 4
        ELSE 5]

\* metadata.Vulnerability
Vulnerability(cve, severity, hasFix) ==
    [CVE |-> cve, Severity |-> severity, HasFixAvailable |-> hasFix]

\* v1beta1.VulnzSigningPolicy: Spec.ImageVulnerabilityRequirements ("" = unset)
VulnzSigningPolicy(maxFixable, maxUnfixable, allowlistCVEs) ==
    [MaximumFixableSeverity |-> maxFixable,
     MaximumUnfixableSeverity |-> maxUnfixable,
     AllowlistCVEs |-> allowlistCVEs]

\* vulnzsigningpolicy.Violation
Violation(vType, v, reason) == [vType |-> vType, vulnerability |-> v, reason |-> reason]

\* The Violation literal of the unqualified image leaves `vulnerability` zero.
ZeroVulnerability == Vulnerability("", "", FALSE)

makeCVEAllowlistMap(vsp) ==
    {vsp.AllowlistCVEs[i] : i \in 1..Len(vsp.AllowlistCVEs)}

\* Mutant: the comparison is strict.
severityWithinThreshold_Strict(maxSeverity, severity) ==
    IF maxSeverity = BlockAll THEN [ok |-> FALSE, err |-> "nil"]
    ELSE IF maxSeverity = AllowAll THEN [ok |-> TRUE, err |-> "nil"]
    ELSE IF maxSeverity \notin DOMAIN Severity_value
    THEN [ok |-> FALSE, err |-> "invalid max severity level"]
    ELSE IF severity \notin DOMAIN Severity_value
    THEN [ok |-> FALSE, err |-> "invalid severity level"]
    ELSE [ok |-> Severity_value[severity] < Severity_value[maxSeverity], err |-> "nil"]

severityWithinThreshold(maxSeverity, severity) ==
    IF maxSeverity = BlockAll THEN [ok |-> FALSE, err |-> "nil"]
    ELSE IF maxSeverity = AllowAll THEN [ok |-> TRUE, err |-> "nil"]
    ELSE IF maxSeverity \notin DOMAIN Severity_value
    THEN [ok |-> FALSE, err |-> "invalid max severity level"]
    ELSE IF severity \notin DOMAIN Severity_value
    THEN [ok |-> FALSE, err |-> "invalid severity level"]
    ELSE [ok |-> Severity_value[severity] <= Severity_value[maxSeverity], err |-> "nil"]

\* Mutant: the loop returns at the first violation.
RECURSIVE validateFrom_FirstOnly(_, _, _, _, _, _)
validateFrom_FirstOnly(vulnz, i, maxSev, maxNoFixSev, cveAllowlistMap, violations) ==
    IF i > Len(vulnz) \/ Len(violations) > 0
    THEN [violations |-> violations, err |-> "nil"]
    ELSE LET v == vulnz[i]
             r == IF v.HasFixAvailable
                  THEN severityWithinThreshold(maxSev, v.Severity)
                  ELSE severityWithinThreshold(maxNoFixSev, v.Severity)
             found == IF v.HasFixAvailable
                      THEN Violation("SeverityViolation", v, "FixableSeverityViolationReason")
                      ELSE Violation("FixUnavailableViolation", v,
                                     "UnfixableSeverityViolationReason")
         IN  IF v.CVE \in cveAllowlistMap
             THEN validateFrom_FirstOnly(vulnz, i + 1, maxSev, maxNoFixSev,
                                         cveAllowlistMap, violations)
             ELSE IF r.err # "nil" THEN [violations |-> violations, err |-> r.err]
             ELSE IF r.ok
             THEN validateFrom_FirstOnly(vulnz, i + 1, maxSev, maxNoFixSev,
                                         cveAllowlistMap, violations)
             ELSE validateFrom_FirstOnly(vulnz, i + 1, maxSev, maxNoFixSev,
                                         cveAllowlistMap, Append(violations, found))

\* The loop over vulnz, from its i-th element, with the violations found so far.
RECURSIVE validateFrom(_, _, _, _, _, _)
validateFrom(vulnz, i, maxSev, maxNoFixSev, cveAllowlistMap, violations) ==
    IF i > Len(vulnz) THEN [violations |-> violations, err |-> "nil"]
    ELSE LET v == vulnz[i] IN
         IF v.CVE \in cveAllowlistMap
         THEN validateFrom(vulnz, i + 1, maxSev, maxNoFixSev, cveAllowlistMap, violations)
         ELSE IF ~v.HasFixAvailable
         THEN LET r == severityWithinThreshold(maxNoFixSev, v.Severity) IN
              IF r.err # "nil" THEN [violations |-> violations, err |-> r.err]
              ELSE IF r.ok
              THEN validateFrom(vulnz, i + 1, maxSev, maxNoFixSev, cveAllowlistMap,
                                violations)
              ELSE validateFrom(vulnz, i + 1, maxSev, maxNoFixSev, cveAllowlistMap,
                       Append(violations,
                              Violation("FixUnavailableViolation", v,
                                        "UnfixableSeverityViolationReason")))
         ELSE LET r == severityWithinThreshold(maxSev, v.Severity) IN
              IF r.err # "nil" THEN [violations |-> violations, err |-> r.err]
              ELSE IF r.ok
              THEN validateFrom(vulnz, i + 1, maxSev, maxNoFixSev, cveAllowlistMap,
                                violations)
              ELSE validateFrom(vulnz, i + 1, maxSev, maxNoFixSev, cveAllowlistMap,
                       Append(violations,
                              Violation("SeverityViolation", v,
                                        "FixableSeverityViolationReason")))

UnqualifiedOnly ==
    [violations |-> <<Violation("UnqualifiedImageViolation", ZeroVulnerability,
                                "UnqualifiedImageReason")>>,
     err |-> "nil"]

\* Mutant: the allowlist map is not consulted.
ValidateVulnzSigningPolicy_NoAllowlist(vsp, image, vulnz) ==
    IF ~FullyQualifiedImage(image) THEN UnqualifiedOnly
    ELSE LET maxSev == IF vsp.MaximumFixableSeverity = "" THEN Critical
                       ELSE vsp.MaximumFixableSeverity
             maxNoFixSev == IF vsp.MaximumUnfixableSeverity = "" THEN AllowAll
                            ELSE vsp.MaximumUnfixableSeverity
         IN  validateFrom(vulnz, 1, maxSev, maxNoFixSev, {}, <<>>)

\* Mutant: the image reference is not checked for a digest.
ValidateVulnzSigningPolicy_NoQualifiedCheck(vsp, image, vulnz) ==
    LET maxSev == IF vsp.MaximumFixableSeverity = "" THEN Critical
                  ELSE vsp.MaximumFixableSeverity
        maxNoFixSev == IF vsp.MaximumUnfixableSeverity = "" THEN AllowAll
                       ELSE vsp.MaximumUnfixableSeverity
    IN  validateFrom(vulnz, 1, maxSev, maxNoFixSev, makeCVEAllowlistMap(vsp), <<>>)

\* Mutant: the two thresholds are taken from each other's field.
ValidateVulnzSigningPolicy_SwappedThresholds(vsp, image, vulnz) ==
    IF ~FullyQualifiedImage(image) THEN UnqualifiedOnly
    ELSE LET maxSev == IF vsp.MaximumUnfixableSeverity = "" THEN Critical
                       ELSE vsp.MaximumUnfixableSeverity
             maxNoFixSev == IF vsp.MaximumFixableSeverity = "" THEN AllowAll
                            ELSE vsp.MaximumFixableSeverity
         IN  validateFrom(vulnz, 1, maxSev, maxNoFixSev, makeCVEAllowlistMap(vsp), <<>>)

\* Mutant: an unset threshold is used as it is.
ValidateVulnzSigningPolicy_NoDefaults(vsp, image, vulnz) ==
    IF ~FullyQualifiedImage(image) THEN UnqualifiedOnly
    ELSE validateFrom(vulnz, 1, vsp.MaximumFixableSeverity, vsp.MaximumUnfixableSeverity,
                      makeCVEAllowlistMap(vsp), <<>>)

ValidateVulnzSigningPolicy(vsp, image, vulnz) ==
    IF ~FullyQualifiedImage(image) THEN UnqualifiedOnly
    ELSE LET maxSev == IF vsp.MaximumFixableSeverity = "" THEN Critical
                       ELSE vsp.MaximumFixableSeverity
             maxNoFixSev == IF vsp.MaximumUnfixableSeverity = "" THEN AllowAll
                            ELSE vsp.MaximumUnfixableSeverity
         IN  validateFrom(vulnz, 1, maxSev, maxNoFixSev, makeCVEAllowlistMap(vsp), <<>>)

\* Thresholds a policy may carry: unset, two severities, the two sentinels, and a
\* string outside the vocabulary.
Thresholds == {"", "HIGH", Critical, BlockAll, AllowAll, "BOGUS"}

VulnzSigningPolicies ==
    {VulnzSigningPolicy(f, u, a) :
        f \in Thresholds, u \in Thresholds, a \in {<<>>, <<"CVE-1">>}}

\* What a scan may report.
Vulnerabilities ==
    {Vulnerability(c, s, h) :
        c \in {"CVE-1", "CVE-2"}, s \in {"HIGH", "CRITICAL", "BOGUS"}, h \in BOOLEAN}

SeverityStrings == DOMAIN Severity_value \cup {BlockAll, AllowAll, "BOGUS", ""}

DoValidate ==
    /\ op.kind = "none"
    /\ \E vsp \in VulnzSigningPolicies :
       \E image \in {QualifiedImage, UnqualifiedImage} :
       \E vulnz \in SeqsUpTo(Vulnerabilities, MaxVulnz) :
           LET r == ValidateVulnzSigningPolicy(vsp, image, vulnz) IN
           /\ op' = [kind |-> "ValidateVulnzSigningPolicy", vsp |-> vsp,
                     image |-> image, vulnz |-> vulnz]
           /\ err' = r.err
           /\ ret' = r.violations
    /\ UNCHANGED <<store, thAttestations, thViolations, occ, calls, lastID>>

DoSeverityWithinThreshold ==
    /\ op.kind = "none"
    /\ \E maxSeverity \in SeverityStrings : \E severity \in SeverityStrings :
           LET r == severityWithinThreshold(maxSeverity, severity) IN
           /\ op' = [kind |-> "severityWithinThreshold",
                     maxSeverity |-> maxSeverity, severity |-> severity]
           /\ err' = r.err
           /\ ret' = r.ok
    /\ UNCHANGED <<store, thAttestations, thViolations, occ, calls, lastID>>

EvalNext == DoValidate \/ DoSeverityWithinThreshold \/ New

EvalSpec == Init /\ [][EvalNext]_vars

\* ----------------------------------------------- properties of the evaluator

Validated == op.kind = "ValidateVulnzSigningPolicy"

\* The severity order of the glossary, lowest first.
SeverityOrder == <<"SEVERITY_UNSPECIFIED", "MINIMAL", "LOW", "MEDIUM", "HIGH", "CRITICAL">>

Recognized == {SeverityOrder[i] : i \in 1..Len(SeverityOrder)}

Rank(s) == CHOOSE i \in 1..Len(SeverityOrder) : SeverityOrder[i] = s

Allowlisted(vsp, v) ==
    \E i \in 1..Len(vsp.AllowlistCVEs) : vsp.AllowlistCVEs[i] = v.CVE

\* The threshold that applies to the vulnerability, with the documented defaults.
ThresholdFor(vsp, v) ==
    IF v.HasFixAvailable
    THEN (IF vsp.MaximumFixableSeverity = "" THEN "CRITICAL"
          ELSE vsp.MaximumFixableSeverity)
    ELSE (IF vsp.MaximumUnfixableSeverity = "" THEN "ALLOW_ALL"
          ELSE vsp.MaximumUnfixableSeverity)

\* The severity is over the threshold.
Exceeds(threshold, severity) ==
    \/ threshold = "BLOCK_ALL"
    \/ /\ threshold \in Recognized
       /\ severity \in Recognized
       /\ Rank(severity) > Rank(threshold)

TypeFor(v) ==
    IF v.HasFixAvailable THEN "SeverityViolation" ELSE "FixUnavailableViolation"

\* The positions of the input list that must produce a violation.
Violating(vsp, vulnz) ==
    {i \in 1..Len(vulnz) :
        ~Allowlisted(vsp, vulnz[i]) /\ Exceeds(ThresholdFor(vsp, vulnz[i]), vulnz[i].Severity)}

\* The j-th smallest element of a set of positions.
Nth(K, j) == CHOOSE k \in K : Cardinality({x \in K : x <= k}) = j

\* C12: no violation is ever emitted for a vulnerability whose CVE is on the
\* policy's allowlist, whatever its severity, its fix flag and the thresholds; on a
\* pinned image there are at most as many violations as vulnerabilities off the list.
C12_AllowlistedNeverViolates ==
    Validated =>
        /\ \A i \in 1..Len(op.vulnz) :
               Allowlisted(op.vsp, op.vulnz[i]) =>
                   \A j \in 1..Len(ret) : ret[j].vulnerability # op.vulnz[i]
        /\ op.image.digest # "" =>
               Len(ret) <= Cardinality({i \in 1..Len(op.vulnz) :
                                           ~Allowlisted(op.vsp, op.vulnz[i])})

\* C12 witness: an allowlisted critical vulnerability under BlockAll thresholds on a
\* pinned image: no violation, no error.
C12_Witness ==
    /\ Validated
    /\ op.image.digest # ""
    /\ op.vsp.MaximumFixableSeverity = BlockAll
    /\ op.vsp.MaximumUnfixableSeverity = BlockAll
    /\ Len(op.vulnz) > 0
    /\ \A i \in 1..Len(op.vulnz) :
           Allowlisted(op.vsp, op.vulnz[i]) /\ op.vulnz[i].Severity = "CRITICAL"
    /\ err = "nil"
    /\ ret = <<>>

\* C13: on an image reference without a digest the evaluation returns exactly one
\* violation, of type UnqualifiedImage, and no error, for every policy and every
\* vulnerability list, also with severities or thresholds outside the vocabulary.
C13_UnqualifiedShortCircuits ==
    (Validated /\ op.image.digest = "")
    => /\ err = "nil"
       /\ Len(ret) = 1
       /\ ret[1].vType = "UnqualifiedImageViolation"

\* C13 witness: a tag, a threshold and a severity outside the vocabulary.
C13_Witness ==
    /\ Validated
    /\ op.image.digest = ""
    /\ op.vsp.MaximumFixableSeverity = "BOGUS"
    /\ \E i \in 1..Len(op.vulnz) :
           /\ op.vulnz[i].Severity = "BOGUS"
           /\ op.vulnz[i].HasFixAvailable
           /\ ~Allowlisted(op.vsp, op.vulnz[i])
    /\ err = "nil"
    /\ Len(ret) = 1

\* C14: severityWithinThreshold is false for BlockAll and true for AllowAll with any
\* severity, true for (x, x) with x recognized, and for a recognized threshold and a
\* recognized severity true iff the severity's rank is at most the threshold's.
C14_SeverityWithinThreshold ==
    op.kind = "severityWithinThreshold" =>
        /\ op.maxSeverity = "BLOCK_ALL" => (err = "nil" /\ ret = FALSE)
        /\ op.maxSeverity = "ALLOW_ALL" => (err = "nil" /\ ret = TRUE)
        /\ (op.maxSeverity \in Recognized /\ op.severity = op.maxSeverity)
               => (err = "nil" /\ ret = TRUE)
        /\ (op.maxSeverity \in Recognized /\ op.severity \in Recognized)
               => /\ err = "nil"
                  /\ ret = (Rank(op.severity) <= Rank(op.maxSeverity))

\* C14 witness: a recognized severity against itself.
C14_Witness ==
    /\ op.kind = "severityWithinThreshold"
    /\ op.maxSeverity = "HIGH"
    /\ op.severity = "HIGH"
    /\ err = "nil"
    /\ ret = TRUE

\* A threshold the policy sets to a string outside the vocabulary.
UnrecognizedThreshold(t) == t \notin Recognized \cup {"BLOCK_ALL", "ALLOW_ALL", ""}

\* C15 (as claimed): on a pinned image, a severity outside the vocabulary on a
\* vulnerability that is not allowlisted, or on the threshold that applies to one,
\* makes the evaluation return an error, whatever the thresholds are (BlockAll and
\* AllowAll included); so does an unrecognized threshold with an empty list.
C15_UnrecognizedIsError ==
    (Validated /\ op.image.digest # "")
    => /\ (\E i \in 1..Len(op.vulnz) :
              /\ ~Allowlisted(op.vsp, op.vulnz[i])
              /\ \/ op.vulnz[i].Severity \notin Recognized
                 \/ UnrecognizedThreshold(ThresholdFor(op.vsp, op.vulnz[i])))
           => err # "nil"
       /\ (/\ Len(op.vulnz) = 0
           /\ \/ UnrecognizedThreshold(op.vsp.MaximumFixableSeverity)
              \/ UnrecognizedThreshold(op.vsp.MaximumUnfixableSeverity))
           => err # "nil"

\* C16: the threshold is picked by HasFixAvailable alone.  Every violation returned
\* for a fixable vulnerability is of the fixable type and the vulnerability is over
\* MaximumFixableSeverity; for an unfixable one it is of the unfixable type and over
\* MaximumUnfixableSeverity; and without error, a vulnerability off the allowlist
\* that is over its own threshold has exactly one violation of its type per
\* occurrence in the list, whatever the other threshold is.
C16_ThresholdByFixFlag ==
    (Validated /\ op.image.digest # "")
    => /\ \A j \in 1..Len(ret) :
              LET v == ret[j].vulnerability IN
              /\ ret[j].vType = TypeFor(v)
              /\ Exceeds(ThresholdFor(op.vsp, v), v.Severity)
       /\ err = "nil" =>
              \A i \in 1..Len(op.vulnz) :
                  LET v == op.vulnz[i] IN
                  (~Allowlisted(op.vsp, v) /\ Exceeds(ThresholdFor(op.vsp, v), v.Severity))
                  => Cardinality({j \in 1..Len(ret) :
                                     ret[j].vulnerability = v /\ ret[j].vType = TypeFor(v)})
                       = Cardinality({k \in 1..Len(op.vulnz) : op.vulnz[k] = v})

\* C16 witness: max-fixable HIGH, one fixable CRITICAL vulnerability off the
\* allowlist, every unfixable vulnerability allowed: one fixable-severity violation.
C16_Witness ==
    /\ Validated
    /\ op.image.digest # ""
    /\ op.vsp.MaximumFixableSeverity = "HIGH"
    /\ op.vsp.MaximumUnfixableSeverity = AllowAll
    /\ op.vulnz = <<Vulnerability("CVE-2", "CRITICAL", TRUE)>>
    /\ err = "nil"
    /\ Len(ret) = 1
    /\ ret[1].vType = "SeverityViolation"

\* C17: without error on a pinned image, the violations are those of the
\* vulnerabilities that are off the allowlist and over their threshold: all of them,
\* one per position, in the order of the input list, and no other.
C17_AllViolationsInOrder ==
    (Validated /\ op.image.digest # "" /\ err = "nil")
    => LET K == Violating(op.vsp, op.vulnz) IN
       /\ Len(ret) = Cardinality(K)
       /\ \A j \in 1..Len(ret) :
              /\ ret[j].vulnerability = op.vulnz[Nth(K, j)]
              /\ ret[j].vType # "UnqualifiedImageViolation"

\* C17 witness: the same vulnerability listed twice yields two violations.
C17_Witness ==
    /\ Validated
    /\ op.image.digest # ""
    /\ err = "nil"
    /\ Len(op.vulnz) = 2
    /\ op.vulnz[1] = op.vulnz[2]
    /\ Len(ret) = 2
    /\ ret[1].vulnerability = ret[2].vulnerability

\* C17 witness: two different violations come out in the order of the list.
C17_WitnessOrder ==
    /\ Validated
    /\ err = "nil"
    /\ Len(ret) = 2
    /\ ret[1].vType = "FixUnavailableViolation"
    /\ ret[2].vType = "SeverityViolation"
    /\ op.vulnz[1] = ret[1].vulnerability

\* C18: an unset MaximumFixableSeverity behaves as Critical and an unset
\* MaximumUnfixableSeverity as AllowAll, on every image and list: same violations,
\* same error.  Under the default unfixable threshold no unfixable vulnerability
\* produces a violation; under the default fixable threshold a fixable violation
\* needs a severity ranked above Critical.
C18_SeverityDefaults ==
    Validated =>
        /\ op.vsp.MaximumFixableSeverity = "" =>
               /\ LET r == ValidateVulnzSigningPolicy(
                               [op.vsp EXCEPT !.MaximumFixableSeverity = "CRITICAL"],
                               op.image, op.vulnz)
                  IN  r.err = err /\ r.violations = ret
               /\ \A j \in 1..Len(ret) :
                      ret[j].vType = "SeverityViolation" =>
                          /\ ret[j].vulnerability.Severity \in Recognized
                          /\ Rank(ret[j].vulnerability.Severity) > Rank("CRITICAL")
        /\ op.vsp.MaximumUnfixableSeverity = "" =>
               /\ LET r == ValidateVulnzSigningPolicy(
                               [op.vsp EXCEPT !.MaximumUnfixableSeverity = "ALLOW_ALL"],
                               op.image, op.vulnz)
                  IN  r.err = err /\ r.violations = ret
               /\ \A j \in 1..Len(ret) : ret[j].vType # "FixUnavailableViolation"

\* C18 witness: both thresholds unset, a fixable and an unfixable CRITICAL
\* vulnerability off the allowlist: no violation, no error.
C18_Witness ==
    /\ Validated
    /\ op.image.digest # ""
    /\ op.vsp.MaximumFixableSeverity = ""
    /\ op.vsp.MaximumUnfixableSeverity = ""
    /\ op.vsp.AllowlistCVEs = <<>>
    /\ Len(op.vulnz) = 2
    /\ op.vulnz[1].HasFixAvailable
    /\ ~op.vulnz[2].HasFixAvailable
    /\ op.vulnz[1].Severity = "CRITICAL"
    /\ op.vulnz[2].Severity = "CRITICAL"
    /\ err = "nil"
    /\ ret = <<>>

\* ------------------------------------------------------------------- signer

MaxOccurrences == 3
MaxIDLen == 4
MaxBatch == 2
MaxSigners == 2

\* signer.New(client, cSigner, noteName, project, overwrite)
Signer(cSigner, noteName, project, overwrite) ==
    [cSigner |-> cSigner, noteName |-> noteName, project |-> project,
     overwrite |-> overwrite]

SignerNote == "projects/test-1/notes/signing-aa"
OtherNote == "projects/test-1/notes/note-2"

\* An occurrence of the metadata store: the store names it, and ties it to a note.
NoteOccurrence(id, note, image, att) ==
    [id |-> id, note |-> note, image |-> image, att |-> att]

\* client.Attestations(image, authority): the image's occurrences under the note.
AttestationsUnder(c, image, note) == {o \in c : o.image = image /\ o.note = note}

\* client.DeleteAttestationOccurrence(image, authority)
DeleteAttestationOccurrence(c, image, note) == c \ AttestationsUnder(c, image, note)

\* client.UploadAttestationOccurrence(note, image, att, project, signatureType):
\* the store names the new occurrence with an ID it has not issued before.
UploadUnderNote(c, id, note, image, att) == c \cup {NoteOccurrence(id, note, image, att)}

\* The collaborator whose call fails in a run, if the run gets to it.
Failures ==
    {"none", "Attestations", "DeleteAttestationOccurrence", "CreateAttestation",
     "GetOrCreateAttestationNote", "UploadAttestationOccurrence"}

isAttestationAlreadyExist(s, image, c, fail) ==
    IF fail = "Attestations"
    THEN [existed |-> FALSE, err |-> "attestations unavailable"]
    ELSE [existed |-> AttestationsUnder(c, image, s.noteName) # {}, err |-> "nil"]

\* createAttestation: the payload needs a digest; then the signing capability runs.
createAttestation(s, image, fail) ==
    IF image.digest = ""
    THEN [err |-> "invalid image", calls |-> <<>>, att |-> CreateAttestation(image, s.cSigner)]
    ELSE IF fail = "CreateAttestation"
    THEN [err |-> "signing failed", calls |-> <<"CreateAttestation">>,
          att |-> CreateAttestation(image, s.cSigner)]
    ELSE [err |-> "nil", calls |-> <<"CreateAttestation">>,
          att |-> CreateAttestation(image, s.cSigner)]

\* Mutant: the upload is made only when the store holds no attestation for the image.
uploadAttestation_IfAbsent(s, image, att, c, n, fail) ==
    IF fail = "GetOrCreateAttestationNote"
    THEN [err |-> "note unavailable", calls |-> <<"GetOrCreateAttestationNote">>,
          c |-> c, lastID |-> n]
    ELSE IF fail = "UploadAttestationOccurrence" \/ AttestationsUnder(c, image, s.noteName) # {}
    THEN [err |-> "upload failed",
          calls |-> <<"GetOrCreateAttestationNote">>,
          c |-> c, lastID |-> n]
    ELSE [err |-> "nil",
          calls |-> <<"GetOrCreateAttestationNote", "UploadAttestationOccurrence">>,
          c |-> UploadUnderNote(c, n + 1, s.noteName, image, att), lastID |-> n + 1]

\* Mutant: the error of the note lookup is dropped and the upload goes ahead.
uploadAttestation_IgnoresNoteError(s, image, att, c, n, fail) ==
    IF fail = "UploadAttestationOccurrence"
    THEN [err |-> "upload failed",
          calls |-> <<"GetOrCreateAttestationNote", "UploadAttestationOccurrence">>,
          c |-> c, lastID |-> n]
    ELSE [err |-> "nil",
          calls |-> <<"GetOrCreateAttestationNote", "UploadAttestationOccurrence">>,
          c |-> UploadUnderNote(c, n + 1, s.noteName, image, att), lastID |-> n + 1]

uploadAttestation(s, image, att, c, n, fail) ==
    IF fail = "GetOrCreateAttestationNote"
    THEN [err |-> "note unavailable", calls |-> <<"GetOrCreateAttestationNote">>,
          c |-> c, lastID |-> n]
    ELSE IF fail = "UploadAttestationOccurrence"
    THEN [err |-> "upload failed",
          calls |-> <<"GetOrCreateAttestationNote", "UploadAttestationOccurrence">>,
          c |-> c, lastID |-> n]
    ELSE [err |-> "nil",
          calls |-> <<"GetOrCreateAttestationNote", "UploadAttestationOccurrence">>,
          c |-> UploadUnderNote(c, n + 1, s.noteName, image, att), lastID |-> n + 1]

\* SignImage from the point where the attestation is created, on store c.
signFrom(s, image, c, n, fail, made) ==
    LET a == createAttestation(s, image, fail) IN
    IF a.err # "nil"
    THEN [err |-> "creatiing attestation failed", c |-> c, lastID |-> n,
          calls |-> made \o a.calls]
    ELSE LET u == uploadAttestation(s, image, a.att, c, n, fail) IN
         IF u.err # "nil"
         THEN [err |-> "uploading attestation failed", c |-> c, lastID |-> n,
               calls |-> made \o a.calls \o u.calls]
         ELSE [err |-> "nil", c |-> u.c, lastID |-> u.lastID,
               calls |-> made \o a.calls \o u.calls]

\* Mutant: an existing attestation does not end the run when overwrite is off.
SignImage_AlwaysSigns(s, image, c, n, fail) ==
    LET e == isAttestationAlreadyExist(s, image, c, fail) IN
    IF e.err # "nil"
    THEN [err |-> "checking existing attestation status failed", c |-> c, lastID |-> n,
          calls |-> <<"Attestations">>]
    ELSE IF e.existed /\ s.overwrite
    THEN IF fail = "DeleteAttestationOccurrence"
         THEN [err |-> "deleting existing attestation failed", c |-> c, lastID |-> n,
               calls |-> <<"Attestations", "DeleteAttestationOccurrence">>]
         ELSE signFrom(s, image, DeleteAttestationOccurrence(c, image, s.noteName), n, fail,
                       <<"Attestations", "DeleteAttestationOccurrence">>)
    ELSE signFrom(s, image, c, n, fail, <<"Attestations">>)

\* Mutant: the prior occurrence is not deleted before the new one is made.
SignImage_NoDelete(s, image, c, n, fail) ==
    LET e == isAttestationAlreadyExist(s, image, c, fail) IN
    IF e.err # "nil"
    THEN [err |-> "checking existing attestation status failed", c |-> c, lastID |-> n,
          calls |-> <<"Attestations">>]
    ELSE IF e.existed /\ ~s.overwrite
    THEN [err |-> "nil", c |-> c, lastID |-> n, calls |-> <<"Attestations">>]
    ELSE signFrom(s, image, c, n, fail, <<"Attestations">>)

\* Mutant: a run that fails after the delete puts the prior occurrences back.
SignImage_Atomic(s, image, c, n, fail) ==
    LET e == isAttestationAlreadyExist(s, image, c, fail) IN
    IF e.err # "nil"
    THEN [err |-> "checking existing attestation status failed", c |-> c, lastID |-> n,
          calls |-> <<"Attestations">>]
    ELSE IF e.existed /\ ~s.overwrite
    THEN [err |-> "nil", c |-> c, lastID |-> n, calls |-> <<"Attestations">>]
    ELSE IF e.existed /\ s.overwrite
    THEN IF fail = "DeleteAttestationOccurrence"
         THEN [err |-> "deleting existing attestation failed", c |-> c, lastID |-> n,
               calls |-> <<"Attestations", "DeleteAttestationOccurrence">>]
         ELSE LET r == signFrom(s, image, DeleteAttestationOccurrence(c, image, s.noteName),
                                n, fail, <<"Attestations", "DeleteAttestationOccurrence">>)
              IN  IF r.err # "nil" THEN [r EXCEPT !.c = c] ELSE r
    ELSE signFrom(s, image, c, n, fail, <<"Attestations">>)

\* Signer.SignImage(image) on store c that has issued n occurrence IDs: the error,
\* the store and the number of IDs afterwards, and the collaborator calls made.
SignImage(s, image, c, n, fail) ==
    LET e == isAttestationAlreadyExist(s, image, c, fail) IN
    IF e.err # "nil"
    THEN [err |-> "checking existing attestation status failed", c |-> c, lastID |-> n,
          calls |-> <<"Attestations">>]
    ELSE IF e.existed /\ ~s.overwrite
    THEN [err |-> "nil", c |-> c, lastID |-> n, calls |-> <<"Attestations">>]
    ELSE IF e.existed /\ s.overwrite
    THEN IF fail = "DeleteAttestationOccurrence"
         THEN [err |-> "deleting existing attestation failed", c |-> c, lastID |-> n,
               calls |-> <<"Attestations", "DeleteAttestationOccurrence">>]
         ELSE signFrom(s, image, DeleteAttestationOccurrence(c, image, s.noteName), n, fail,
                       <<"Attestations", "DeleteAttestationOccurrence">>)
    ELSE signFrom(s, image, c, n, fail, <<"Attestations">>)

\* One run of the signer on an image.
DoSignImage ==
    /\ op.kind = "none"
    /\ lastID < MaxOccurrences
    /\ \E image \in {QualifiedImage, IntTestImage, UnqualifiedImage} :
       \E overwrite \in BOOLEAN :
       \E fail \in Failures :
           LET s == Signer(sec, SignerNote, "test-1", overwrite)
               r == SignImage(s, image, store, lastID, fail)
           IN  /\ op' = [kind |-> "SignImage", image |-> image, overwrite |-> overwrite,
                         fail |-> fail, store |-> store, lastID |-> lastID]
               /\ err' = r.err
               /\ store' = r.c
               /\ occ' = r.c \ store
               /\ calls' = r.calls
               /\ lastID' = r.lastID
    /\ UNCHANGED <<thAttestations, thViolations, ret>>

\* Another authority attests an image under its own note.
OtherAuthorityUpload ==
    /\ op.kind = "none"
    /\ lastID < MaxOccurrences
    /\ \E image \in QualifiedImages :
           /\ AttestationsUnder(store, image, OtherNote) = {}
           /\ store' = UploadUnderNote(store, lastID + 1, OtherNote, image,
                                       CreateAttestation(image, sec2))
    /\ lastID' = lastID + 1
    /\ UNCHANGED <<op, err, thAttestations, thViolations, occ, ret, calls>>

\* Another writer of the store left an occurrence under the signer's note for an
\* image reference that carries no digest.
TagReferenceUpload ==
    /\ op.kind = "none"
    /\ lastID < MaxOccurrences
    /\ AttestationsUnder(store, UnqualifiedImage, SignerNote) = {}
    /\ store' = UploadUnderNote(store, lastID + 1, SignerNote, UnqualifiedImage,
                                CreateAttestation(UnqualifiedImage, sec))
    /\ lastID' = lastID + 1
    /\ UNCHANGED <<op, err, thAttestations, thViolations, occ, ret, calls>>

SignerNext == DoSignImage \/ OtherAuthorityUpload \/ TagReferenceUpload \/ New

SignerSpec == Init /\ [][SignerNext]_vars

\* --------------------------------------------------- properties of the signer

Signed == op.kind = "SignImage"

\* What the store held for the image under the signer's note when the run began,
\* and what it holds now.
Prior == {o \in op.store : o.image = op.image /\ o.note = SignerNote}

Current == {o \in store : o.image = op.image /\ o.note = SignerNote}

\* The existence query succeeded and returned at least one attestation.
Existed == op.fail # "Attestations" /\ Prior # {}

Made(call) == {i \in 1..Len(calls) : calls[i] = call}

\* C19: when the existence query succeeds with at least one attestation and
\* overwrite is off, SignImage returns success having made no delete, signing, note
\* or upload call; the store is as it was, so the next run meets the same state.
C19_IdempotentNoOp ==
    (Signed /\ Existed /\ ~op.overwrite)
    => /\ err = "nil"
       /\ calls = <<"Attestations">>
       /\ store = op.store
       /\ occ = {}
       /\ lastID = op.lastID

\* C19 witness: a run without overwrite on an image this signer attested before.
C19_Witness ==
    /\ Signed
    /\ ~op.overwrite
    /\ op.fail = "none"
    /\ \E o \in Prior : o.att = CreateAttestation(op.image, sec)
    /\ err = "nil"
    /\ store = op.store

\* C20: with overwrite on and an attestation present, the delete call precedes the
\* signing and the upload call; a successful run makes exactly one upload, after
\* which the image has exactly one occurrence under the note, one the store did not
\* hold before.  When the query found no attestation, no delete call is made.
C20_OverwriteDeletesFirst ==
    Signed =>
        /\ (Existed /\ op.overwrite) =>
               /\ Made("DeleteAttestationOccurrence") # {}
               /\ \A d \in Made("DeleteAttestationOccurrence") :
                  \A k \in Made("CreateAttestation") \cup Made("UploadAttestationOccurrence") :
                      d < k
               /\ err = "nil" =>
                      /\ Cardinality(Made("UploadAttestationOccurrence")) = 1
                      /\ Cardinality(Current) = 1
                      /\ \A o \in Current : \A q \in op.store : o.id # q.id
                      /\ Prior \cap store = {}
        /\ (op.fail # "Attestations" /\ Prior = {}) =>
               /\ Made("DeleteAttestationOccurrence") = {}
               /\ err = "nil" =>
                      /\ Cardinality(Made("UploadAttestationOccurrence")) = 1
                      /\ Cardinality(Current) = 1

\* C20 witness: a successful overwrite of an attestation this signer made before.
C20_Witness ==
    /\ Signed
    /\ op.overwrite
    /\ Existed
    /\ err = "nil"
    /\ Cardinality(Current) = 1
    /\ Current \cap Prior = {}
    /\ calls = <<"Attestations", "DeleteAttestationOccurrence", "CreateAttestation",
                 "GetOrCreateAttestationNote", "UploadAttestationOccurrence">>

\* The run got as far as creating the attestation.
SigningReached ==
    /\ op.fail # "Attestations"
    /\ ~(Existed /\ ~op.overwrite)
    /\ ~(Existed /\ op.overwrite /\ op.fail = "DeleteAttestationOccurrence")

NoCall(names) == \A i \in 1..Len(calls) : calls[i] \notin names

\* C21: SignImage stops at the first phase that fails and the error names the phase.
\* A failed existence query: no delete, signing or upload.  A failed delete on the
\* overwrite path: no signing, no upload.  A failed payload build or signing: no
\* note call, no upload.  A failed note get-or-create: no upload.  In each case the
\* store is as it was, but for what a delete that succeeded removed.
C21_AbortsAtFirstFailure ==
    Signed =>
        /\ op.fail = "Attestations" =>
               /\ err = "checking existing attestation status failed"
               /\ calls = <<"Attestations">>
               /\ store = op.store
        /\ (Existed /\ op.overwrite /\ op.fail = "DeleteAttestationOccurrence") =>
               /\ err = "deleting existing attestation failed"
               /\ NoCall({"CreateAttestation", "GetOrCreateAttestationNote",
                          "UploadAttestationOccurrence"})
               /\ store = op.store
        /\ (SigningReached /\ (op.image.digest = "" \/ op.fail = "CreateAttestation")) =>
               /\ err = "creatiing attestation failed"
               /\ NoCall({"GetOrCreateAttestationNote", "UploadAttestationOccurrence"})
               /\ occ = {}
        /\ (/\ SigningReached
            /\ op.image.digest # ""
            /\ op.fail = "GetOrCreateAttestationNote") =>
               /\ err = "uploading attestation failed"
               /\ NoCall({"UploadAttestationOccurrence"})
               /\ occ = {}
        /\ (/\ SigningReached
            /\ op.image.digest # ""
            /\ op.fail = "UploadAttestationOccurrence") =>
               /\ err = "uploading attestation failed"
               /\ occ = {}

\* C21 witness: the note lookup fails in a run that had signed the attestation.
C21_Witness ==
    /\ Signed
    /\ SigningReached
    /\ op.fail = "GetOrCreateAttestationNote"
    /\ calls[Len(calls)] = "GetOrCreateAttestationNote"
    /\ err = "uploading attestation failed"

\* C21 witness: the delete fails on the overwrite path, and nothing is signed.
C21_WitnessDelete ==
    /\ Signed
    /\ Existed
    /\ op.overwrite
    /\ op.fail = "DeleteAttestationOccurrence"
    /\ err = "deleting existing attestation failed"
    /\ store = op.store

\* The delete of the overwrite path succeeded and a later phase failed.
FailedAfterDelete ==
    /\ Signed
    /\ Existed
    /\ op.overwrite
    /\ op.fail # "DeleteAttestationOccurrence"
    /\ \/ op.image.digest = ""
       \/ op.fail \in {"CreateAttestation", "GetOrCreateAttestationNote",
                       "UploadAttestationOccurrence"}

\* C27: with overwrite on and an attestation present, when the delete succeeds and
\* the payload build, the signing, the note get-or-create or the upload then fails,
\* SignImage returns an error and the image, which had an attestation under the
\* signer's note before the run, has none after it.
C27_OverwriteNotAtomic ==
    FailedAfterDelete =>
        /\ err # "nil"
        /\ Made("DeleteAttestationOccurrence") # {}
        /\ Prior # {}
        /\ Current = {}
        /\ store = op.store \ Prior

\* C27 witness: the upload fails after the prior attestation was deleted.
C27_Witness ==
    /\ FailedAfterDelete
    /\ op.fail = "UploadAttestationOccurrence"
    /\ calls[Len(calls)] = "UploadAttestationOccurrence"
    /\ Current = {}

\* C27 witness: the payload cannot be built for the image whose attestation was deleted.
C27_WitnessPayload ==
    /\ FailedAfterDelete
    /\ op.image.digest = ""
    /\ err = "creatiing attestation failed"
    /\ Current = {}

\* ------------------------------------------------------------ signer program

CheckAndSign == "check-and-sign"
CheckOnly == "check-only"
BypassAndSign == "bypass-and-sign"

\* How a run of the program ends: glog.Fatalf, os.Exit(1), or the return of main.
Fatal(msg, made, c, n) == [exit |-> "fatal", err |-> msg, calls |-> made, c |-> c, lastID |-> n]

\* What client.Vulnerabilities hands back: a nil slice, or a list (that may be empty).
Scan(isNil, list) == [nil |-> isNil, list |-> list]

\* The step of main that fails in a run, next to the collaborator of SignImage that does.
MainFailures ==
    {"none", "containeranalysis.New", "policy", "WaitForVulnzAnalysis", "Vulnerabilities",
     "credentials", "CheckNoteName"}

\* main, `if doSign` block: credentials, note name, signer.New, SignImage.
mainSign(image, overwrite, mfail, fail, c, n, made) ==
    IF mfail = "credentials"
    THEN Fatal("Neither kms_key_name or private_key is specified", made, c, n)
    ELSE IF mfail = "CheckNoteName"
    THEN Fatal("Note name is invalid", made, c, n)
    ELSE LET r == SignImage(Signer(sec, SignerNote, "test-1", overwrite), image, c, n, fail)
         IN  IF r.err # "nil"
             THEN Fatal("Signing image failed", made \o <<"SignImage">> \o r.calls,
                        r.c, r.lastID)
             ELSE [exit |-> "ok", err |-> "nil", calls |-> made \o <<"SignImage">> \o r.calls,
                   c |-> r.c, lastID |-> r.lastID]

\* Mutant: violations are logged and the run goes on to sign.
main_SignsDespiteViolations(mode, image, vsp, scan, overwrite, mfail, fail, c, n) ==
    LET doCheck == mode \in {CheckAndSign, CheckOnly}
        doSign == mode \in {CheckAndSign, BypassAndSign}
        finish(made) ==
            IF doSign THEN mainSign(image, overwrite, mfail, fail, c, n, made)
            ELSE [exit |-> "ok", err |-> "nil", calls |-> made, c |-> c, lastID |-> n]
    IN
    IF mode \notin {CheckAndSign, BypassAndSign, CheckOnly}
    THEN Fatal("Unrecognized mode", <<>>, c, n)
    ELSE IF image = Image("", "") THEN Fatal("Image url is empty", <<>>, c, n)
    ELSE IF mfail = "containeranalysis.New"
    THEN Fatal("Could not initialize the client", <<>>, c, n)
    ELSE IF ~doCheck THEN finish(<<>>)
    ELSE IF mfail = "policy" THEN Fatal("Fail to load vulnz signing policy", <<>>, c, n)
    ELSE IF mfail = "WaitForVulnzAnalysis"
    THEN Fatal("Error waiting for vulnerability analysis", <<"WaitForVulnzAnalysis">>, c, n)
    ELSE IF mfail = "Vulnerabilities"
    THEN Fatal("Found err", <<"WaitForVulnzAnalysis", "Vulnerabilities">>, c, n)
    ELSE IF scan.nil
    THEN Fatal("Expected some vulnerabilities. Nil found",
               <<"WaitForVulnzAnalysis", "Vulnerabilities">>, c, n)
    ELSE LET v == ValidateVulnzSigningPolicy(vsp, image, scan.list)
             made == <<"WaitForVulnzAnalysis", "Vulnerabilities",
                       "ValidateVulnzSigningPolicy">>
         IN  IF v.err # "nil"
             THEN Fatal("Error when evaluating image against policy", made, c, n)
             ELSE finish(made)

\* main of the signer program, on store c that has issued n occurrence IDs: how the
\* run ends, the calls it made in order, and the store afterwards.
main(mode, image, vsp, scan, overwrite, mfail, fail, c, n) ==
    LET doCheck == mode \in {CheckAndSign, CheckOnly}
        doSign == mode \in {CheckAndSign, BypassAndSign}
        finish(made) ==
            IF doSign THEN mainSign(image, overwrite, mfail, fail, c, n, made)
            ELSE [exit |-> "ok", err |-> "nil", calls |-> made, c |-> c, lastID |-> n]
    IN
    IF mode \notin {CheckAndSign, BypassAndSign, CheckOnly}
    THEN Fatal("Unrecognized mode", <<>>, c, n)
    ELSE IF image = Image("", "") THEN Fatal("Image url is empty", <<>>, c, n)
    ELSE IF mfail = "containeranalysis.New"
    THEN Fatal("Could not initialize the client", <<>>, c, n)
    ELSE IF ~doCheck THEN finish(<<>>)
    ELSE IF mfail = "policy" THEN Fatal("Fail to load vulnz signing policy", <<>>, c, n)
    ELSE IF mfail = "WaitForVulnzAnalysis"
    THEN Fatal("Error waiting for vulnerability analysis", <<"WaitForVulnzAnalysis">>, c, n)
    ELSE IF mfail = "Vulnerabilities"
    THEN Fatal("Found err", <<"WaitForVulnzAnalysis", "Vulnerabilities">>, c, n)
    ELSE IF scan.nil
    THEN Fatal("Expected some vulnerabilities. Nil found",
               <<"WaitForVulnzAnalysis", "Vulnerabilities">>, c, n)
    ELSE LET v == ValidateVulnzSigningPolicy(vsp, image, scan.list)
             made == <<"WaitForVulnzAnalysis", "Vulnerabilities",
                       "ValidateVulnzSigningPolicy">>
         IN  IF v.err # "nil"
             THEN Fatal("Error when evaluating image against policy", made, c, n)
             ELSE IF Len(v.violations) # 0
             THEN [exit |-> "exit 1", err |-> "violations", calls |-> made, c |-> c,
                   lastID |-> n]
             ELSE finish(made)

\* The command lines, policy files and scan results the program is run with.
MainModes == {CheckAndSign, CheckOnly, BypassAndSign, "sign-only"}

MainImages == {QualifiedImage, UnqualifiedImage, Image("", "")}

MainPolicies ==
    {VulnzSigningPolicy("HIGH", "", <<>>),
     VulnzSigningPolicy(BlockAll, BlockAll, <<"CVE-1">>),
     VulnzSigningPolicy("BOGUS", "", <<>>)}

MainScans ==
    {Scan(TRUE, <<>>)} \cup
    {Scan(FALSE, l) :
        l \in SeqsUpTo({Vulnerability("CVE-1", "HIGH", TRUE),
                        Vulnerability("CVE-2", "CRITICAL", TRUE)}, MaxVulnz)}

\* One run of the signer program.
DoMain ==
    /\ op.kind = "none"
    /\ lastID < MaxOccurrences
    /\ \E mode \in MainModes :
       \E image \in MainImages :
       \E vsp \in MainPolicies :
       \E scan \in MainScans :
       \E overwrite \in BOOLEAN :
       \E mfail \in MainFailures :
       \E fail \in {"none", "UploadAttestationOccurrence"} :
           LET r == main(mode, image, vsp, scan, overwrite, mfail, fail, store, lastID)
           IN  /\ op' = [kind |-> "main", mode |-> mode, image |-> image, vsp |-> vsp,
                         scan |-> scan, overwrite |-> overwrite, mfail |-> mfail,
                         fail |-> fail, store |-> store, lastID |-> lastID]
               /\ err' = r.err
               /\ ret' = r.exit
               /\ store' = r.c
               /\ occ' = r.c \ store
               /\ calls' = r.calls
               /\ lastID' = r.lastID
    /\ UNCHANGED <<thAttestations, thViolations>>

MainNext == DoMain \/ New

MainSpec == Init /\ [][MainNext]_vars

\* ------------------------------------------- properties of the signer program

Ran == op.kind = "main"

\* Position of a call in the log, 0 when it was not made.
FirstCall(name) ==
    IF \E i \in 1..Len(calls) : calls[i] = name
    THEN CHOOSE i \in 1..Len(calls) :
             calls[i] = name /\ \A j \in 1..(i - 1) : calls[j] # name
    ELSE 0

SigningCalls ==
    {"SignImage", "Attestations", "DeleteAttestationOccurrence", "CreateAttestation",
     "GetOrCreateAttestationNote", "UploadAttestationOccurrence"}

CheckingCalls == {"WaitForVulnzAnalysis", "Vulnerabilities", "ValidateVulnzSigningPolicy"}

\* The scan handed to the run holds a vulnerability the policy does not let pass,
\* or the policy cannot be evaluated on it.
ScanFails ==
    /\ ~op.scan.nil
    /\ \/ ~FullyQualifiedImage(op.image)
       \/ \E i \in 1..Len(op.scan.list) :
              LET v == op.scan.list[i] IN
              /\ ~Allowlisted(op.vsp, v)
              /\ \/ ThresholdFor(op.vsp, v) \notin Recognized \cup {BlockAll, AllowAll}
                 \/ Exceeds(ThresholdFor(op.vsp, v), v.Severity)

\* C22: in check-and-sign mode SignImage is invoked only after the evaluation of
\* the image returned no error and no violation, and a violation or an evaluation
\* error ends the run in failure with the store untouched; in check-only mode
\* SignImage is never invoked; in bypass-and-sign mode SignImage is invoked with no
\* vulnerability fetched or evaluated; any other mode ends the run before any call.
C22_SignerModes ==
    Ran =>
        /\ (op.mode = CheckAndSign /\ FirstCall("SignImage") # 0) =>
               /\ FirstCall("ValidateVulnzSigningPolicy") # 0
               /\ FirstCall("ValidateVulnzSigningPolicy") < FirstCall("SignImage")
               /\ ~ScanFails
               /\ ~op.scan.nil
        /\ (op.mode = CheckAndSign /\ (ScanFails \/ op.scan.nil)) =>
               /\ ret # "ok"
               /\ NoCall(SigningCalls)
               /\ store = op.store
               /\ occ = {}
        /\ op.mode = CheckOnly =>
               /\ NoCall(SigningCalls)
               /\ store = op.store
        /\ op.mode = BypassAndSign =>
               /\ NoCall(CheckingCalls)
               /\ (/\ op.image # Image("", "")
                   /\ op.mfail \notin {"containeranalysis.New", "credentials",
                                       "CheckNoteName"})
                  => FirstCall("SignImage") = 1
        /\ op.mode \notin {CheckAndSign, CheckOnly, BypassAndSign} =>
               /\ ret = "fatal"
               /\ calls = <<>>
               /\ store = op.store

\* C22 witness: check-and-sign evaluates a scan without violations, then signs.
C22_Witness ==
    /\ Ran
    /\ op.mode = CheckAndSign
    /\ Len(op.scan.list) > 0
    /\ FirstCall("ValidateVulnzSigningPolicy") = 3
    /\ FirstCall("SignImage") = 4
    /\ ret = "ok"
    /\ occ # {}

\* C22 witness: check-and-sign meets a violation and leaves without signing.
C22_WitnessViolation ==
    /\ Ran
    /\ op.mode = CheckAndSign
    /\ op.mfail = "none"
    /\ ScanFails
    /\ ret = "exit 1"
    /\ calls = <<"WaitForVulnzAnalysis", "Vulnerabilities", "ValidateVulnzSigningPolicy">>

\* C22 witness: bypass-and-sign signs an image whose scan holds a violation.
C22_WitnessBypass ==
    /\ Ran
    /\ op.mode = BypassAndSign
    /\ ScanFails
    /\ ret = "ok"
    /\ occ # {}

\* ---------------------------------------------------------------- public keys

\* A key ID handed to NewPublicKey is a string; here it is the sequence of its
\* characters, over a letter, a digit, the colon and the slash.
IDAlphabet == {"a", "1", ":", "/"}

Contains(str, ch) == \E i \in 1..Len(str) : str[i] = ch

HasPrefix(str, prefix) ==
    /\ Len(prefix) <= Len(str)
    /\ SubSeq(str, 1, Len(prefix)) = prefix

\* strings.Index and strings.LastIndex for one character, 0 when it is absent.
Index(str, ch) ==
    IF Contains(str, ch)
    THEN CHOOSE i \in 1..Len(str) : str[i] = ch /\ \A j \in 1..(i - 1) : str[j] # ch
    ELSE 0

LastIndex(str, ch) ==
    IF Contains(str, ch)
    THEN CHOOSE i \in 1..Len(str) : str[i] = ch /\ \A j \in (i + 1)..Len(str) : str[j] # ch
    ELSE 0

\* net/url getScheme: letters may start a scheme, digits may continue it, the
\* first colon ends it; any other character means there is no scheme.
RECURSIVE getScheme(_, _)
getScheme(rawURL, i) ==
    IF i > Len(rawURL) THEN [err |-> "nil", scheme |-> <<>>, rest |-> rawURL]
    ELSE IF rawURL[i] = "a" THEN getScheme(rawURL, i + 1)
    ELSE IF rawURL[i] = "1"
    THEN (IF i = 1 THEN [err |-> "nil", scheme |-> <<>>, rest |-> rawURL]
          ELSE getScheme(rawURL, i + 1))
    ELSE IF rawURL[i] = ":"
    THEN (IF i = 1 THEN [err |-> "missing protocol scheme", scheme |-> <<>>, rest |-> rawURL]
          ELSE [err |-> "nil", scheme |-> SubSeq(rawURL, 1, i - 1),
                rest |-> SubSeq(rawURL, i + 1, Len(rawURL))])
    ELSE [err |-> "nil", scheme |-> <<>>, rest |-> rawURL]

\* net/url validOptionalPort: empty, or a colon followed by digits.
validOptionalPort(port) ==
    \/ port = <<>>
    \/ /\ port[1] = ":"
       /\ \A i \in 2..Len(port) : port[i] = "1"

\* net/url parseHost: what follows the last colon of the host is a port.
parseHost(host) ==
    IF LastIndex(host, ":") # 0
       /\ ~validOptionalPort(SubSeq(host, LastIndex(host, ":"), Len(host)))
    THEN "invalid port after host"
    ELSE "nil"

\* net/url ParseRequestURI: the error it returns for rawURL.
ParseRequestURI(rawURL) ==
    IF rawURL = <<>> THEN "empty url"
    ELSE LET s == getScheme(rawURL, 1) IN
    IF s.err # "nil" THEN s.err
    ELSE IF ~HasPrefix(s.rest, <<"/">>)
    THEN (IF s.scheme # <<>> THEN "nil" ELSE "invalid URI for request")
    ELSE IF s.scheme # <<>> /\ HasPrefix(s.rest, <<"/", "/">>)
    THEN LET after == SubSeq(s.rest, 3, Len(s.rest))
             authority == IF Index(after, "/") # 0
                          THEN SubSeq(after, 1, Index(after, "/") - 1)
                          ELSE after
         IN  parseHost(authority)
    ELSE "nil"

\* openpgp.ReadArmoredKeyRing: the fingerprints of the keys in the armored block.
ReadArmoredKeyRing(keyData) ==
    IF keyData = sec.PublicKey THEN [err |-> "nil", keyring |-> <<"fpr1">>]
    ELSE IF keyData = sec2.PublicKey THEN [err |-> "nil", keyring |-> <<"fpr2">>]
    ELSE IF keyData = "pub+pub2" THEN [err |-> "nil", keyring |-> <<"fpr1", "fpr2">>]
    ELSE IF keyData = "armored-empty" THEN [err |-> "nil", keyring |-> <<>>]
    ELSE [err |-> "no armored data found", keyring |-> <<>>]

\* fmt.Sprintf("%X", fingerprint): the fingerprint in upper-case hexadecimal.
SprintfX(fingerprint) == IF fingerprint = "fpr1" THEN "FPR1" ELSE "FPR2"

extractPgpKeyID(keyData) ==
    LET r == ReadArmoredKeyRing(keyData) IN
    IF r.err # "nil" THEN [err |-> "error reading armored public key", id |-> ""]
    ELSE IF Len(r.keyring) # 1 THEN [err |-> "expected 1 public key", id |-> ""]
    ELSE [err |-> "nil", id |-> SprintfX(r.keyring[1])]

extractPkixKeyID(keyData, keyID) ==
    IF Contains(keyID, ":") /\ ParseRequestURI(keyID) # "nil"
    THEN [err |-> "keyID not formatted as StringOrURI", id |-> <<>>]
    ELSE [err |-> "nil", id |-> keyID]

\* Mutant: a caller-supplied ID is kept for a PGP key.
NewPublicKey_KeepsCallerID(keyType, keyData, keyID) ==
    IF keyType = "PGP"
    THEN LET r == extractPgpKeyID(keyData) IN
         IF r.err # "nil" THEN [err |-> r.err, key |-> <<>>]
         ELSE IF keyID # <<>> THEN [err |-> "nil", key |-> <<PublicKey(keyType, keyData, keyID)>>]
         ELSE [err |-> "nil", key |-> <<PublicKey(keyType, keyData, r.id)>>]
    ELSE IF keyType \in {"PKIX", "JWT"}
    THEN LET r == extractPkixKeyID(keyData, keyID) IN
         IF r.err # "nil" THEN [err |-> r.err, key |-> <<>>]
         ELSE [err |-> "nil", key |-> <<PublicKey(keyType, keyData, r.id)>>]
    ELSE [err |-> "invalid key type", key |-> <<>>]

\* NewPublicKey(keyType, signatureAlgorithm, keyData, keyID): the error, and the
\* key returned (no key when there is an error).
NewPublicKey(keyType, keyData, keyID) ==
    IF keyType = "PGP"
    THEN LET r == extractPgpKeyID(keyData) IN
         IF r.err # "nil" THEN [err |-> r.err, key |-> <<>>]
         ELSE [err |-> "nil", key |-> <<PublicKey(keyType, keyData, r.id)>>]
    ELSE IF keyType \in {"PKIX", "JWT"}
    THEN LET r == extractPkixKeyID(keyData, keyID) IN
         IF r.err # "nil" THEN [err |-> r.err, key |-> <<>>]
         ELSE [err |-> "nil", key |-> <<PublicKey(keyType, keyData, r.id)>>]
    ELSE [err |-> "invalid key type", key |-> <<>>]

KeyTypes == {"PGP", "PKIX", "JWT", "UNKNOWN"}

KeyDatas == {sec.PublicKey, sec2.PublicKey, "pub+pub2", "armored-empty", "garbage"}

\* The short IDs, and two URIs with an authority: a port of digits, and one of letters.
KeyIDs ==
    SeqsUpTo(IDAlphabet, MaxIDLen) \cup
    {<<"a", ":", "/", "/", "a", ":", "1">>, <<"a", ":", "/", "/", "a", ":", "a">>}

DoNewPublicKey ==
    /\ op.kind = "none"
    /\ \E keyType \in KeyTypes : \E keyData \in KeyDatas : \E keyID \in KeyIDs :
           LET r == NewPublicKey(keyType, keyData, keyID) IN
           /\ op' = [kind |-> "NewPublicKey", keyType |-> keyType, keyData |-> keyData,
                     keyID |-> keyID]
           /\ err' = r.err
           /\ ret' = r.key
    /\ UNCHANGED <<store, thAttestations, thViolations, occ, calls, lastID>>

KeyNext == DoNewPublicKey \/ New

KeySpec == Init /\ [][KeyNext]_vars

\* ------------------------------------------------- properties of public keys

C23_WitnessEmptyID ==
    /\ op.kind = "NewPublicKey"
    /\ op.keyType = "PKIX"
    /\ op.keyID = <<>>
    /\ err = "nil"
    /\ ret[1].ID = <<>>

\* C23 witness: a JWT key ID that starts with a colon is refused.
C23_WitnessBadURI ==
    /\ op.kind = "NewPublicKey"
    /\ op.keyType = "JWT"
    /\ op.keyID = <<":", "a">>
    /\ err = "keyID not formatted as StringOrURI"
    /\ ret = <<>>

\* C23 witness: a URI whose port is not a number is refused.
C23_WitnessBadPort ==
    /\ op.kind = "NewPublicKey"
    /\ op.keyType = "PKIX"
    /\ op.keyID = <<"a", ":", "/", "/", "a", ":", "a">>
    /\ err # "nil"

\* C23 witness: a keyring of two keys is refused.
C23_WitnessTwoKeys ==
    /\ op.kind = "NewPublicKey"
    /\ op.keyType = "PGP"
    /\ op.keyData = "pub+pub2"
    /\ err = "expected 1 public key"
    /\ ret = <<>>

\* ---------------------------------------------- properties of the key index

\* The ID occurs more than once in the key list.
Duplicated(publicKeySet, id) ==
    \E i, j \in 1..Len(publicKeySet) :
        i # j /\ publicKeySet[i].ID = id /\ publicKeySet[j].ID = id

\* C24: the index NewVerifier builds holds one key for each key ID of the list
\* and no other ID, and the key it holds is the last one of the list with that ID;
\* a repeated ID is not an error; and an attestation that names a repeated ID is
\* accepted exactly when its signature verifies under the later key and its
\* payload names the image, whatever the earlier key would have said.
C24_LastKeyWins ==
    /\ (op.kind = "NewVerifier" /\ op.image.digest # "") =>
           /\ err = "nil"
           /\ DOMAIN ret.PublicKeys =
                  {op.publicKeySet[i].ID : i \in 1..Len(op.publicKeySet)}
           /\ \A id \in DOMAIN ret.PublicKeys :
                  ret.PublicKeys[id] = LastListed(op.publicKeySet, id)
    /\ (/\ op.kind = "VerifyAttestation"
        /\ op.image.digest # ""
        /\ Duplicated(op.publicKeySet, op.att.PublicKeyID)) =>
           (err = "nil" <=>
               /\ SignatureVerifies(LastListed(op.publicKeySet, op.att.PublicKeyID), op.att)
               /\ PayloadNames(op.att, op.image))

\* C24 witness: two keys share an ID and the index holds the second.
C24_Witness ==
    /\ op.kind = "NewVerifier"
    /\ err = "nil"
    /\ Len(op.publicKeySet) = 2
    /\ op.publicKeySet[1] # op.publicKeySet[2]
    /\ Duplicated(op.publicKeySet, sec.Fingerprint)
    /\ ret.PublicKeys[sec.Fingerprint] = op.publicKeySet[2]
    /\ Cardinality(DOMAIN ret.PublicKeys) = 1

\* C24 witness: an attestation the earlier key would verify is refused under the
\* later key of the same ID.
C24_WitnessLaterKeyOnly ==
    /\ op.kind = "VerifyAttestation"
    /\ Len(op.publicKeySet) = 2
    /\ Duplicated(op.publicKeySet, op.att.PublicKeyID)
    /\ SignatureVerifies(op.publicKeySet[1], op.att)
    /\ PayloadNames(op.att, op.image)
    /\ err = "pgp verification failed"

\* ------------------------------------- properties of lookup, dispatch, payload

\* VerifyAttestation ran on a verifier that NewVerifier built without error.
Verified == op.kind = "VerifyAttestation" /\ op.image.digest # ""

NamedKey == LastListed(op.publicKeySet, op.att.PublicKeyID)

\* C25: an attestation whose PublicKeyID is not in the index fails with "no public
\* key with ID found" and no verification strategy is called, even when a key of the
\* set would verify its signature; a key of a type other than PGP, PKIX and JWT
\* fails with "signature uses an unsupported key mode"; with the PKIX strategy of
\* the code every attestation that names a PKIX key fails, and an authority whose
\* keys are all PKIX keys never attests an image.
C25_LookupAndDispatchErrors ==
    /\ Verified =>
           IF ~Listed(op.publicKeySet, op.att.PublicKeyID)
           THEN err = "no public key with ID found" /\ calls = <<>>
           ELSE /\ NamedKey.KeyType \notin {"PGP", "PKIX", "JWT"} =>
                       err = "signature uses an unsupported key mode" /\ calls = <<>>
                /\ NamedKey.KeyType = "PKIX" =>
                       err = "verify pkix not implemented" /\ calls = <<"verifyPkix">>
    /\ (/\ op.kind = "hasValidAttestation"
        /\ \A i \in 1..Len(op.publicKeySet) : op.publicKeySet[i].KeyType = "PKIX")
       => ret = FALSE

\* C25 witness: an attestation that a key of the set would verify names an ID the
\* index does not hold.
C25_Witness ==
    /\ Verified
    /\ ~Listed(op.publicKeySet, op.att.PublicKeyID)
    /\ \E i \in 1..Len(op.publicKeySet) : SignatureVerifies(op.publicKeySet[i], op.att)
    /\ PayloadNames(op.att, op.image)
    /\ err = "no public key with ID found"

\* C25 witness: the named key is of no supported type.
C25_WitnessUnsupported ==
    /\ Verified
    /\ Listed(op.publicKeySet, op.att.PublicKeyID)
    /\ NamedKey.KeyType = "UNKNOWN"
    /\ err = "signature uses an unsupported key mode"

\* C25 witness: a PKIX authority does not attest an image for which the store
\* holds an attestation naming its key, made with the matching private key.
C25_WitnessPkix ==
    /\ op.kind = "hasValidAttestation"
    /\ op.publicKeySet = <<PublicKey("PKIX", sec.PublicKey, "kid-pkix")>>
    /\ \E att \in Attestations(store, op.image) :
           /\ att.PublicKeyID = "kid-pkix"
           /\ att.Signature.signedBy = sec.PrivateKey
           /\ att.SerializedPayload = AtomicContainerPayload(op.image)
           /\ att.Signature.payload = AtomicContainerPayload(op.image)
    /\ ret = FALSE

C30_PayloadFromVerifiedSignature ==
    (Verified /\ Listed(op.publicKeySet, op.att.PublicKeyID)) =>
        /\ NamedKey.KeyType \in {"PGP", "JWT"} =>
               /\ err = "nil" <=>
                      (SignatureVerifies(NamedKey, op.att) /\ PayloadNames(op.att, op.image))
               /\ \A q \in VerifierPayloads :
                      VerifyAttestation(NewVerifier(op.image, op.publicKeySet),
                                        [op.att EXCEPT !.SerializedPayload = q]) = err
        /\ ~SignatureVerifies(NamedKey, op.att) => err \notin PayloadErrors \cup {"nil"}
        /\ NamedKey.KeyType = "PKIX" => err \notin PayloadErrors \cup {"nil"}

\* C30 witness: an attestation whose SerializedPayload names another image than
\* the payload inside its signature is accepted for the image the signature names.
C30_Witness ==
    /\ Verified
    /\ Listed(op.publicKeySet, op.att.PublicKeyID)
    /\ NamedKey.KeyType = "PGP"
    /\ op.att.SerializedPayload # op.att.Signature.payload
    /\ op.att.SerializedPayload # AtomicContainerPayload(op.image)
    /\ err = "nil"

\* C30 witness: an attestation whose SerializedPayload names the image, and whose
\* signed payload names another digest, is refused.
C30_WitnessSignedPayloadDecides ==
    /\ Verified
    /\ Listed(op.publicKeySet, op.att.PublicKeyID)
    /\ NamedKey.KeyType = "JWT"
    /\ SignatureVerifies(NamedKey, op.att)
    /\ op.att.SerializedPayload = AtomicContainerPayload(op.image)
    /\ err = "wrong image digest in payload"

\* ------------------------------------------------------- authority resolution

AuthorityNames == {"test", "test2", "missing"}

\* getAttestationAuthoritiesForGAP on its own.
DoResolveGAP ==
    /\ op.kind = "none"
    /\ \E names \in SeqsUpTo(AuthorityNames, MaxPolicies) :
           LET r == getAttestationAuthoritiesForGAP(GAP("foo", <<>>, names)) IN
           /\ op' = [kind |-> "getAttestationAuthoritiesForGAP", names |-> names]
           /\ err' = r.err
           /\ ret' = r.auths
    /\ UNCHANGED <<store, thAttestations, thViolations, occ, calls, lastID>>

\* getAttestationAuthorityForISP on its own: the authority returned, if any.
DoResolveISP ==
    /\ op.kind = "none"
    /\ \E name \in AuthorityNames \cup {""} :
           LET r == getAttestationAuthorityForISP(ISP("foo", name, "sec")) IN
           /\ op' = [kind |-> "getAttestationAuthorityForISP", name |-> name]
           /\ err' = r.err
           /\ ret' = IF r.auth = NoAuthority THEN <<>> ELSE <<r.auth>>
    /\ UNCHANGED <<store, thAttestations, thViolations, occ, calls, lastID>>

\* Review batches of MaxBatch images.
BatchImages == [1..MaxBatch -> {QualifiedImage, IntTestImage, AllowedImageName}]

BatchGAPs == {gapUnresolved, oneGAP, barGAP}

BatchISPs == ISPs \cup {ISP("qux", "", "sec")}

DoReviewBatchGAP ==
    /\ op.kind = "none"
    /\ \E images \in BatchImages :
       \E gaps \in SeqsUpTo(BatchGAPs, MaxPolicies) :
           LET r == ReviewGAP(images, gaps, store) IN
           /\ op' = Call("ReviewGAP", images, gaps, TRUE, store)
           /\ err' = r.err
           /\ thAttestations' = r.th
    /\ UNCHANGED <<store, thViolations, occ, aux>>

DoReviewBatchISP ==
    /\ op.kind = "none"
    /\ \E images \in BatchImages :
       \E isps \in SeqsUpTo(BatchISPs, MaxPolicies) :
       \E isWebhook \in BOOLEAN :
           LET r == ReviewISP(images, isps, isWebhook, store) IN
           /\ op' = Call("ReviewISP", images, isps, isWebhook, store)
           /\ err' = r.err
           /\ thAttestations' = r.thA
           /\ thViolations' = r.thV
           /\ occ' = r.occ
           /\ store' = r.c
    /\ UNCHANGED aux

ResolveNext ==
    DoResolveGAP \/ DoResolveISP \/ DoReviewBatchGAP \/ DoReviewBatchISP \/ New

ResolveSpec == Init /\ [][ResolveNext]_vars

\* --------------------------------------- properties of authority resolution

ResolutionError == "no such attestation authority"

\* The review stopped at some image of the batch: that image got no verdict from
\* the step that failed, and no image after it was looked at.
StoppedAt(i) ==
    \A j \in (i + 1)..Len(op.images) :
        (\A h \in 1..i : op.images[h] # op.images[j]) =>
            /\ op.images[j] \notin DOMAIN thAttestations
            /\ op.images[j] \notin DOMAIN thViolations
            /\ UploadedFor(op.images[j]) = {}

\* C26: resolving a GAP's authority names gives every named authority, in order,
\* or an error and no list at all as soon as one name does not resolve; an empty
\* name list gives an empty list and no error.  For an ISP a name that does not
\* resolve is an error, and the empty name gives no authority and no error.  A
\* resolution error ends the review of the batch: the review returns it, and no
\* later image is looked at.
C26_AuthorityResolution ==
    /\ op.kind = "getAttestationAuthoritiesForGAP" =>
           IF Resolvable(op.names)
           THEN /\ err = "nil"
                /\ ret = [i \in 1..Len(op.names) |-> authMap[op.names[i]]]
           ELSE err = ResolutionError /\ ret = <<>>
    /\ op.kind = "getAttestationAuthorityForISP" =>
           IF op.name = "" THEN err = "nil" /\ ret = <<>>
           ELSE IF op.name \in DOMAIN authMap
           THEN err = "nil" /\ ret = <<authMap[op.name]>>
           ELSE err = ResolutionError /\ ret = <<>>
    /\ (op.kind \in {"ReviewGAP", "ReviewISP"} /\ err = ResolutionError) =>
           /\ \E i \in 1..Len(op.images) : StoppedAt(i)
           /\ \E k \in 1..Len(op.policies) :
                  IF op.kind = "ReviewGAP"
                  THEN ~Resolvable(op.policies[k].AttestationAuthorityNames)
                  ELSE op.policies[k].AttestationAuthorityName \notin DOMAIN authMap \cup {""}
    /\ (/\ op.kind = "ReviewGAP"
        /\ Len(op.policies) > 0
        /\ op.images[1] \notin GlobalAllowlist
        /\ Len(op.policies[1].AttestationAuthorityNames) > 0
        /\ ~Matches(op.images[1], op.policies[1])
        /\ ~Resolvable(op.policies[1].AttestationAuthorityNames))
       => /\ err = ResolutionError
          /\ thAttestations = NoRecords
    /\ (/\ op.kind = "ReviewISP"
        /\ Len(op.policies) > 0
        /\ op.images[1] \notin GlobalAllowlist
        /\ op.policies[1].AttestationAuthorityName \notin DOMAIN authMap \cup {""})
       => /\ err = ResolutionError
          /\ thAttestations = NoRecords
          /\ thViolations = NoRecords
          /\ occ = {}
          /\ store = op.store
    /\ (/\ op.kind = "ReviewISP"
        /\ \A k \in 1..Len(op.policies) :
               op.policies[k].AttestationAuthorityName \in DOMAIN authMap \cup {""})
       => err # ResolutionError

\* C26 witness: the second name of a GAP's list does not resolve, and the authority
\* of the first is not returned.
C26_Witness ==
    /\ op.kind = "getAttestationAuthoritiesForGAP"
    /\ op.names = <<"test", "missing">>
    /\ err = ResolutionError
    /\ ret = <<>>

\* C26 witness: the empty name of an ISP resolves to no authority without error.
C26_WitnessEmptyName ==
    /\ op.kind = "getAttestationAuthorityForISP"
    /\ op.name = ""
    /\ err = "nil"
    /\ ret = <<>>

\* C26 witness: a GAP review of two images ends on the first with the resolution
\* error although the second policy would have admitted both.
C26_WitnessBatchGAP ==
    /\ op.kind = "ReviewGAP"
    /\ op.images = <<IntTestImage, IntTestImage>>
    /\ op.policies = <<gapUnresolved, oneGAP>>
    /\ Quorum(IntTestImage, oneGAP)
    /\ err = ResolutionError
    /\ thAttestations = NoRecords

\* C26 witness: an ISP review of two images ends on the second policy of the first
\* image, and the second image is not looked at.
C26_WitnessBatchISP ==
    /\ op.kind = "ReviewISP"
    /\ Len(op.policies) = 2
    /\ op.policies[2].AttestationAuthorityName = "missing"
    /\ op.images[1] = IntTestImage
    /\ op.images[2] = QualifiedImage
    /\ IntTestImage \in DOMAIN thAttestations
    /\ QualifiedImage \notin DOMAIN thAttestations
    /\ err = ResolutionError

\* ------------------------------------------------------- concurrent signers

\* Runs of SignImage (overwrite off, one authority) that go on at the same time
\* against one metadata store.  Each run makes its collaborator calls in the order
\* of SignImage; the calls of different runs interleave freely.  `op` holds, for
\* every run, its image, the call it makes next and what its query returned;
\* `calls` is the log of <<run, call>> in the order the store saw them.
Signers == 1..MaxSigners

RaceSigner == Signer(sec, SignerNote, "test-1", FALSE)

RaceStart ==
    /\ op.kind = "none"
    /\ lastID + MaxSigners <= MaxOccurrences
    /\ \E images \in [Signers -> {QualifiedImage, IntTestImage}] :
           op' = [kind |-> "race", image |-> images,
                  pc |-> [r \in Signers |-> "Attestations"],
                  existed |-> [r \in Signers |-> FALSE],
                  store |-> store, lastID |-> lastID]
    /\ err' = "nil"
    /\ calls' = <<>>
    /\ occ' = {}
    /\ UNCHANGED <<store, thAttestations, thViolations, ret, lastID>>

\* SignImage, lines 208-218: the existence query and the return when it found one.
RaceQuery(r) ==
    /\ op.kind = "race"
    /\ op.pc[r] = "Attestations"
    /\ LET e == isAttestationAlreadyExist(RaceSigner, op.image[r], store, "none") IN
       op' = [op EXCEPT !.existed[r] = e.existed,
                        !.pc[r] = IF e.existed THEN "done" ELSE "CreateAttestation"]
    /\ calls' = Append(calls, <<r, "Attestations">>)
    /\ UNCHANGED <<store, err, thAttestations, thViolations, occ, ret, lastID>>

\* SignImage, lines 227-233: the attestation is made locally.
RaceCreate(r) ==
    /\ op.kind = "race"
    /\ op.pc[r] = "CreateAttestation"
    /\ createAttestation(RaceSigner, op.image[r], "none").err = "nil"
    /\ op' = [op EXCEPT !.pc[r] = "uploadAttestation"]
    /\ calls' = Append(calls, <<r, "CreateAttestation">>)
    /\ UNCHANGED <<store, err, thAttestations, thViolations, occ, ret, lastID>>

\* SignImage, lines 235-241: the note and the upload.
RaceUpload(r) ==
    /\ op.kind = "race"
    /\ op.pc[r] = "uploadAttestation"
    /\ LET a == createAttestation(RaceSigner, op.image[r], "none")
           u == uploadAttestation(RaceSigner, op.image[r], a.att, store, lastID, "none")
       IN  /\ store' = u.c
           /\ lastID' = u.lastID
           /\ occ' = occ \cup (u.c \ store)
           /\ calls' = calls \o [i \in 1..Len(u.calls) |-> <<r, u.calls[i]>>]
           /\ op' = [op EXCEPT !.pc[r] = "done"]
    /\ UNCHANGED <<err, thAttestations, thViolations, ret>>

\* Every run has returned.
RaceEnd ==
    /\ op.kind = "race"
    /\ \A r \in Signers : op.pc[r] = "done"
    /\ New

RaceNext ==
    \/ RaceStart
    \/ \E r \in Signers : RaceQuery(r) \/ RaceCreate(r) \/ RaceUpload(r)
    \/ RaceEnd

RaceSpec == Init /\ [][RaceNext]_vars

\* ---------------------------------------- properties of concurrent signers

Racing == op.kind = "race"

\* Where run r made the call, 0 when it has not made it.
CallAt(r, call) ==
    IF \E i \in 1..Len(calls) : calls[i] = <<r, call>>
    THEN CHOOSE i \in 1..Len(calls) : calls[i] = <<r, call>>
    ELSE 0

Uploaders(image) ==
    {r \in Signers : op.image[r] = image /\ CallAt(r, "UploadAttestationOccurrence") # 0}

UnderSignerNote(c, image) == {o \in c : o.image = image /\ o.note = SignerNote}

C28_WitnessSequential ==
    /\ Racing
    /\ op.image[1] = op.image[2]
    /\ op.pc[1] = "done" /\ op.pc[2] = "done"
    /\ CallAt(2, "Attestations") > CallAt(1, "UploadAttestationOccurrence")
    /\ CallAt(1, "UploadAttestationOccurrence") # 0
    /\ Cardinality(UnderSignerNote(store, op.image[1])) = 1

====
